---------------------------- MODULE Spec2Model ----------------------------
(***************************************************************************)
(* Model of the `ralph implement` loop controller                          *)
(* (crates/ralph-cli/src/commands/implement.rs) together with the parts of *)
(* ralph-lib it drives: the append-only ledger (ledger.rs), the            *)
(* requirement document (prd.rs) and the staged validation pipeline        *)
(* (validation.rs).                                                        *)
(*                                                                         *)
(* The durable state (prd.json, ledger.jsonl, validation.json) is kept in  *)
(* `disk`; the in-memory document and ledger are `prd` and `ledger`.  One  *)
(* run of the command walks the program counter `pc` through the steps of  *)
(* run() and run_single_iteration().  The external collaborators (the      *)
(* assistant, the shell commands of a validation stage, the summarizer,    *)
(* the file system) are nondeterministic.                                  *)
(***************************************************************************)
EXTENDS Integers, Sequences, FiniteSets, TLC

VARIABLES
    config,           \* ImplementConfig: dry_run, loop_enabled, max_iterations
    disk,             \* durable files: prd, ledger (absent or lines), validation
    prd,              \* in-memory Prd of the run
    ledger,           \* in-memory Ledger.events of the run
    validation_config,\* Option<ValidationConfig> loaded by run()
    pc,               \* position of the run in run()/run_single_iteration()
    iteration_count,  \* run()'s loop counter
    local,            \* locals of run_single_iteration()
    reason,           \* how the run ended
    env,              \* history of what the collaborators answered in this run
    start,            \* the document and the ledger as the run loaded them
    runs,             \* history across the runs of the command on these files
    file,             \* ledger.rs on its own: the bytes of a ledger file
    lib,              \* ledger.rs on its own: a Ledger value and its last call
    profile,          \* validation.rs on its own: a profile and its last call
    call              \* a function on its own: its arguments and what it returned

vars == <<config, disk, prd, ledger, validation_config, pc, iteration_count,
          local, reason, env, start, runs, file, lib, profile, call>>

\* The variables of the library harnesses, which no step of a run touches.
unit == <<file, lib, profile, call>>

---------------------------------------------------------------------------
(* Bounds of the model *)

\* Largest number of requirements in a document.
MaxReqs == 2

\* Non-dry-run attempts explored, over all the runs on the same files; a run
\* with a larger cap is followed for this many attempts only.
MaxAttempts == 3

\* clap default of --max-iterations.
DefaultMaxIterations == 10

\* Values of --max-iterations that are explored.
MaxIterationsValues == {0, 1, 2, 3, DefaultMaxIterations}

---------------------------------------------------------------------------
(* Option<T> as a sequence of length at most one *)

None == <<>>
Some(x) == <<x>>
IsSome(o) == o /= <<>>
Unwrap(o) == o[1]

---------------------------------------------------------------------------
(* prd.rs *)

RequirementStatus == {"Todo", "InProgress", "Done", "Blocked"}

\* Requirement ids are unique in a document; the i-th one is ReqId(i).
ReqId(i) == <<"REQ", i>>

Requirement(i, s) == [id |-> ReqId(i), status |-> s]

\* Least element of a non-empty set of indices; 0 for the empty set.
FirstIndex(S) == IF S = {} THEN 0 ELSE CHOOSE i \in S : \A j \in S : i <= j

\* Variant of UpdateRequirementStatus that ignores the id and writes to the
\* head of the list.
UpdateRequirementStatusAtHead(requirements, req_id, status) ==
    IF requirements = <<>> THEN requirements
    ELSE [requirements EXCEPT ![1].status = status]

\* Variant of UpdateRequirementStatus that writes to every requirement with
\* that id.
UpdateRequirementStatusEvery(requirements, req_id, status) ==
    [k \in 1..Len(requirements) |->
        IF requirements[k].id = req_id
        THEN [requirements[k] EXCEPT !.status = status]
        ELSE requirements[k]]

\* What Prd::update_requirement_status returns: whether `find` found one.
UpdateRequirementStatusReturns(requirements, req_id) ==
    \E k \in 1..Len(requirements) : requirements[k].id = req_id

\* Prd::update_requirement_status: the first requirement with that id.
UpdateRequirementStatus(requirements, req_id, status) ==
    LET i == FirstIndex({k \in 1..Len(requirements) : requirements[k].id = req_id})
    IN  IF i = 0 THEN requirements
        ELSE [requirements EXCEPT ![i].status = status]

---------------------------------------------------------------------------
(* ledger.rs *)

EventStatus == {"Started", "InProgress", "Done", "Failed"}

\* LedgerEvent::new: no validation result, no message.
NewEvent(iteration, requirement, status) ==
    [iteration |-> iteration, requirement |-> requirement, status |-> status,
     validation_passed |-> None, message |-> None]

WithValidation(event, passed) ==
    [event EXCEPT !.validation_passed = Some(passed)]

\* with_validation_output is called by implement.rs; it stores the summary
\* as the event's message.
WithValidationOutput(event, summary) ==
    [event EXCEPT !.message = Some(summary)]

RECURSIVE MaxIteration(_)
MaxIteration(events) ==
    IF events = <<>> THEN 0
    ELSE LET m == MaxIteration(Tail(events))
         IN  IF Head(events).iteration > m THEN Head(events).iteration ELSE m

\* Variant of LatestIteration that counts the passes of run()'s loop instead
\* of reading the ledger.
LatestIterationFromPassCount(events) ==
    IF iteration_count = 0 THEN 0 ELSE iteration_count - 1

\* Variant of LatestIteration that reads the last event only.
LatestIterationOfLastEvent(events) ==
    IF events = <<>> THEN 0 ELSE events[Len(events)].iteration

\* Variant of LatestIteration that counts the events.
LatestIterationCountsEvents(events) == Len(events)

\* Ledger::latest_iteration
LatestIteration(events) == MaxIteration(events)

\* Variant of EventsForRequirement that keeps the last match only.
EventsForRequirementLastOnly(events, req_id) ==
    LET all == SelectSeq(events, LAMBDA e : e.requirement = req_id)
    IN  IF all = <<>> THEN <<>> ELSE <<all[Len(all)]>>

\* Ledger::events_for_requirement
EventsForRequirement(events, req_id) ==
    SelectSeq(events, LAMBDA e : e.requirement = req_id)

\* Variant of IsRequirementFailed that is content with any Failed event.
IsRequirementFailedEver(events, req_id) ==
    \E k \in 1..Len(events) :
        events[k].requirement = req_id /\ events[k].status = "Failed"

\* Ledger::is_requirement_failed
IsRequirementFailed(events, req_id) ==
    LET own == EventsForRequirement(events, req_id)
    IN  own /= <<>> /\ own[Len(own)].status = "Failed"

\* get_last_validation_failure is called by generate_prompt; it gives the
\* message stored with the last event of the requirement when the ledger
\* records that event as Failed.
GetLastValidationFailure(events, req_id) ==
    IF IsRequirementFailed(events, req_id)
    THEN LET own == EventsForRequirement(events, req_id)
         IN  own[Len(own)].message
    ELSE None

---------------------------------------------------------------------------
(* validation.rs *)

AllStages == <<"Fmt", "Lint", "Typecheck", "Test">>
ShortCircuitStages == <<"Fmt", "Lint", "Typecheck">>
StageNames == {"Fmt", "Lint", "Typecheck", "Test"}

\* The loop of run_all over the stages; ok[stage] is what run_stage reports.
RECURSIVE RunStages(_, _)
RunStages(stages, ok) ==
    IF stages = <<>> THEN <<>>
    ELSE LET result == [stage |-> Head(stages), success |-> ok[Head(stages)]]
         IN  IF result.success
             THEN <<result>> \o RunStages(Tail(stages), ok)
             ELSE <<result>>

\* ValidationProfile::run_all
RunAll(ok, include_tests) ==
    RunStages(IF include_tests THEN AllStages ELSE ShortCircuitStages, ok)

---------------------------------------------------------------------------
(* implement.rs: helpers of run() and run_single_iteration() *)

\* Variant of IsEligible that overlooks requirements already in progress.
IsEligibleTodoOnly(r) == r.status = "Todo"

\* The predicate of the `find` that selects the next requirement.
IsEligible(r) == r.status = "Todo" \/ r.status = "InProgress"

\* Variant of NextReq that takes the last eligible requirement of the list.
NextReqLast(requirements) ==
    LET S == {i \in 1..Len(requirements) : IsEligible(requirements[i])}
    IN  IF S = {} THEN 0 ELSE CHOOSE i \in S : \A j \in S : j <= i

\* Index of the requirement `find` returns, 0 for None.
NextReq(requirements) ==
    FirstIndex({i \in 1..Len(requirements) : IsEligible(requirements[i])})

\* Variants of CapReached that are off by one, either way.
CapReachedEarly(count, max_iterations) == count >= max_iterations
CapReachedLate(count, max_iterations) == count > max_iterations + 1

\* run()'s safety limit, tested after iteration_count was incremented.
CapReached(count, max_iterations) == count > max_iterations

\* Variant of RunFullTests that counts the passes of run()'s loop.
RunFullTestsFromPassCount(iteration) == iteration_count % 5 = 0

\* iteration % 5 == 0
RunFullTests(iteration) == iteration % 5 = 0

\* Variant of ResolvedProfile that takes the first listed profile the
\* configuration defines.
ResolvedProfileAnyListed(vconfig, profiles) ==
    LET i == IF IsSome(vconfig)
             THEN FirstIndex({k \in 1..Len(profiles) :
                                 profiles[k] \in Unwrap(vconfig)})
             ELSE 0
    IN  IF i = 0 THEN None ELSE Some(profiles[i])

\* prd.validation_profiles.first().and_then(|p| vc.get(p)), inside
\* `if let Some(vc) = validation_config`.
ResolvedProfile(vconfig, profiles) ==
    IF IsSome(vconfig) /\ profiles /= <<>> /\ Head(profiles) \in Unwrap(vconfig)
    THEN Some(Head(profiles))
    ELSE None

\* results.iter().all(|r| r.success)
AllPassed(results) == \A i \in 1..Len(results) : results[i].success

\* Variant of FailedOutput that looks for the first successful stage.
FailedOutputFirstSuccess(results) ==
    LET i == FirstIndex({k \in 1..Len(results) : results[k].success})
    IN  IF i = 0 THEN None ELSE Some(results[i].stage)

\* results.iter().find(|r| !r.success).map(..): the first failed stage.
FailedOutput(results) ==
    LET i == FirstIndex({k \in 1..Len(results) : ~results[k].success})
    IN  IF i = 0 THEN None ELSE Some(results[i].stage)

\* Variant of OutcomeStatus that never marks the requirement Done.
OutcomeStatusKeepsInProgress(copilot_success, validation_passed) ==
    IF copilot_success /\ validation_passed
    THEN [final_status |-> "InProgress", event_status |-> "Done"]
    ELSE [final_status |-> "InProgress", event_status |-> "Failed"]

\* Variant of OutcomeStatus that is content with one of the two successes.
OutcomeStatusEither(copilot_success, validation_passed) ==
    IF copilot_success \/ validation_passed
    THEN [final_status |-> "Done", event_status |-> "Done"]
    ELSE [final_status |-> "InProgress", event_status |-> "Failed"]

\* Variant of OutcomeStatus that looks at the validation result only.
OutcomeStatusIgnoresAssistant(copilot_success, validation_passed) ==
    IF validation_passed
    THEN [final_status |-> "Done", event_status |-> "Done"]
    ELSE [final_status |-> "InProgress", event_status |-> "Failed"]

\* (final_status, event_status) of an attempt.
OutcomeStatus(copilot_success, validation_passed) ==
    IF copilot_success /\ validation_passed
    THEN [final_status |-> "Done", event_status |-> "Done"]
    ELSE [final_status |-> "InProgress", event_status |-> "Failed"]

\* What summarize_validation_output can return for a non-empty output: some
\* text (the assistant's bullet points, or the truncated output when the
\* assistant is unavailable) or the assistant's empty answer.
Summaries == {"summary", ""}

\* Variant of OutcomeEvent that leaves out the validation result.
OutcomeEventNoValidation(iteration, req_id, event_status, validation_passed, validation_output, summary) ==
    LET event == NewEvent(iteration, req_id, event_status)
    IN  IF IsSome(validation_output)
        THEN WithValidationOutput(event, summary)
        ELSE event

\* Variant of OutcomeEvent that records whether the whole attempt succeeded.
OutcomeEventOverallResult(iteration, req_id, event_status, validation_passed, validation_output, summary) ==
    LET event == WithValidation(NewEvent(iteration, req_id, event_status),
                                event_status = "Done")
    IN  IF IsSome(validation_output)
        THEN WithValidationOutput(event, summary)
        ELSE event

\* The outcome event of an attempt, before it is appended.
OutcomeEvent(iteration, req_id, event_status, validation_passed, validation_output, summary) ==
    LET event == WithValidation(NewEvent(iteration, req_id, event_status),
                                validation_passed)
    IN  IF IsSome(validation_output)
        THEN WithValidationOutput(event, summary)
        ELSE event

\* The stored failure message generate_prompt puts in the prompt, if any:
\* `if iteration > 1 { if let Some(..) = get_last_validation_failure(..) }`.
\* The messages of the runs followed here are within the size bound of the
\* prompt; longer ones are followed in SpecFeedback.
PromptFeedback(events, req_id, iteration) ==
    IF iteration > 1 THEN GetLastValidationFailure(events, req_id) ELSE None

NoLocal ==
    [req |-> None, iteration |-> 0, run_full_tests |-> FALSE,
     feedback |-> None, copilot_success |-> FALSE, results |-> <<>>,
     validation_passed |-> FALSE, validation_output |-> None]

\* History of the collaborators' answers in a run: the number of assistant
\* invocations and of validation blocks executed, and for the assistant and
\* for validation the answer given every time so far ("None" before the
\* first, "Mixed" once two differ).
NoEnv ==
    [attempts |-> 0, validations |-> 0, assistant |-> "None",
     validation |-> "None"]

Observe(seen, answer) ==
    IF seen = "None" \/ seen = answer THEN answer ELSE "Mixed"

\* History across runs: the attempts begun so far, and the requirement of
\* the attempt the previous run was interrupted in after its assistant had
\* run and before its outcome event was appended (None otherwise).
NoRuns == [attempts |-> 0, interrupted |-> None]

\* No Ledger value yet, no call made.
NoLib ==
    [obj |-> None, op |-> "none", result |-> "none", arg |-> None,
     origin |-> "none", failed |-> FALSE, calls |-> 0, answer |-> None]

\* No function called yet.
NoCall == [fn |-> "none", input |-> None, output |-> None]

\* No profile run yet.
NoProfile ==
    [op |-> "none", commands |-> <<>>, include_tests |-> FALSE,
     results |-> <<>>, ran |-> <<>>]

---------------------------------------------------------------------------
(* Initial states: the files and the command line before the run *)

Statuses(n) == [1..n -> RequirementStatus]

InitRequirements ==
    {[i \in 1..n |-> Requirement(i, st[i])] : n \in {0}, st \in {<<>>}}
    \cup UNION {{[i \in 1..n |-> Requirement(i, st[i])] : st \in Statuses(n)}
                : n \in 1..MaxReqs}

ProfileLists == {<<>>, <<"rust-cargo">>, <<"node-npm", "rust-cargo">>}

ValidationFiles == {None, Some({"rust-cargo"})}

\* A ledger left by an earlier run: four failed attempts at the first
\* requirement.
RECURSIVE FailedAttempts(_)
FailedAttempts(n) ==
    IF n = 0 THEN <<>>
    ELSE FailedAttempts(n - 1) \o
         <<NewEvent(n, ReqId(1), "Started"),
           WithValidationOutput(
               WithValidation(NewEvent(n, ReqId(1), "Failed"), FALSE),
               "summary")>>

LedgerFiles == {None, Some(<<>>), Some(FailedAttempts(4))}

Init ==
    /\ config \in [dry_run : BOOLEAN, loop_enabled : BOOLEAN,
                   max_iterations : MaxIterationsValues]
    /\ disk \in [prd : [validation_profiles : ProfileLists,
                        requirements : InitRequirements],
                 ledger : LedgerFiles,
                 validation : ValidationFiles]
    /\ prd = [validation_profiles |-> <<>>, requirements |-> <<>>]
    /\ ledger = <<>>
    /\ validation_config = None
    /\ pc = "load"
    /\ iteration_count = 0
    /\ local = NoLocal
    /\ reason = "Running"
    /\ env = NoEnv
    /\ start = [requirements |-> <<>>, events |-> <<>>]
    /\ runs = NoRuns
    /\ file = None
    /\ lib = NoLib
    /\ profile = NoProfile
    /\ call = NoCall

---------------------------------------------------------------------------
(* The run: run() and run_single_iteration(), one action per step *)

\* run(): load the document, the ledger (created when the file is missing)
\* and the validation configuration, then enter the loop or the single pass.
Load ==
    /\ pc = "load"
    /\ prd' = disk.prd
    /\ ledger' = IF IsSome(disk.ledger) THEN Unwrap(disk.ledger) ELSE <<>>
    /\ disk' = IF IsSome(disk.ledger) THEN disk
               ELSE [disk EXCEPT !.ledger = Some(<<>>)]
    /\ validation_config' = disk.validation
    /\ iteration_count' = 0
    /\ pc' = IF config.loop_enabled THEN "loop" ELSE "select"
    /\ start' = [requirements |-> prd'.requirements, events |-> ledger']
    /\ UNCHANGED <<config, local, reason, env, runs, unit>>

\* Top of run()'s loop: count the pass and test the safety limit.
LoopTop ==
    /\ pc = "loop"
    /\ iteration_count' = iteration_count + 1
    /\ IF CapReached(iteration_count', config.max_iterations)
       THEN pc' = "terminated" /\ reason' = "MaxIterationsReached"
       ELSE pc' = "select" /\ reason' = reason
    /\ UNCHANGED <<config, disk, prd, ledger, validation_config, local, env,
                   start, runs, unit>>

\* Variant of Returned that takes every answer for Ok(true).
ReturnedAlwaysDone(all_done) ==
    IF config.loop_enabled
    THEN pc' = "terminated" /\ reason' = "AllComplete"
    ELSE pc' = "terminated" /\ reason' = "SingleIteration"

\* pc and reason after run_single_iteration() returned Ok(all_done).
Returned(all_done) ==
    IF config.loop_enabled
    THEN IF all_done
         THEN pc' = "terminated" /\ reason' = "AllComplete"
         ELSE pc' = "loop" /\ reason' = reason
    ELSE pc' = "terminated" /\ reason' = "SingleIteration"

\* run_single_iteration(): find the next requirement, derive the iteration
\* number from the ledger; return early when nothing is left or on dry-run.
Select ==
    /\ pc = "select"
    /\ LET i == NextReq(prd.requirements)
           iteration == LatestIteration(ledger) + 1
       IN  IF i = 0
           THEN Returned(TRUE) /\ local' = NoLocal /\ runs' = runs
           ELSE IF config.dry_run
           THEN Returned(FALSE) /\ local' = NoLocal /\ runs' = runs
           ELSE /\ runs.attempts < MaxAttempts
                /\ runs' = [runs EXCEPT !.attempts = @ + 1]
                /\ local' = [NoLocal EXCEPT !.req = Some(prd.requirements[i]),
                                            !.iteration = iteration,
                                            !.run_full_tests = RunFullTests(iteration)]
                /\ pc' = "mark"
                /\ reason' = reason
    /\ UNCHANGED <<config, disk, prd, ledger, validation_config,
                   iteration_count, env, start, unit>>

\* Variant of Abort that drops the error and goes on with the next step.
AbortIgnored ==
    /\ pc' = CASE pc = "mark" -> "log_start"
                [] pc = "log_start" -> "copilot"
                [] pc = "save_outcome" -> "append_outcome"
                [] OTHER -> IF config.loop_enabled THEN "loop" ELSE "terminated"
    /\ reason' = reason

\* A `?` on a failed save or append: run() returns the error.
Abort ==
    /\ pc' = "aborted"
    /\ reason' = "Error"

\* Variant of MarkInProgress that changes the status in memory only.
MarkInProgressNoSave ==
    /\ pc = "mark"
    /\ prd' = [prd EXCEPT !.requirements =
                  UpdateRequirementStatus(@, Unwrap(local.req).id, "InProgress")]
    /\ pc' = "log_start"
    /\ UNCHANGED <<config, disk, ledger, validation_config, iteration_count,
                   local, reason, env, start, runs, unit>>

\* prd.update_requirement_status(&req.id, InProgress); prd.save(prd_path)?
MarkInProgress ==
    /\ pc = "mark"
    /\ prd' = [prd EXCEPT !.requirements =
                  UpdateRequirementStatus(@, Unwrap(local.req).id, "InProgress")]
    /\ \/ /\ disk' = [disk EXCEPT !.prd = prd']
          /\ pc' = "log_start"
          /\ reason' = reason
       \/ /\ disk' = disk
          /\ Abort
    /\ UNCHANGED <<config, ledger, validation_config, iteration_count, local,
                   env, start, runs, unit>>

\* Ledger::append: the line is written to the file, then the event is
\* pushed; on an I/O error the event is not pushed (the bytes a failed write
\* can leave in the file are followed in SpecLedger).
LedgerAppend(event) ==
    /\ disk' = [disk EXCEPT !.ledger = Some(Append(Unwrap(@), event))]
    /\ ledger' = Append(ledger, event)

\* ledger.append(LedgerEvent::new(iteration, &req.id, Started))?
LogStart ==
    /\ pc = "log_start"
    /\ \/ /\ LedgerAppend(NewEvent(local.iteration, Unwrap(local.req).id, "Started"))
          /\ pc' = "copilot"
          /\ reason' = reason
       \/ /\ UNCHANGED <<disk, ledger>>
          /\ Abort
    /\ UNCHANGED <<config, prd, validation_config, iteration_count, local,
                   env, start, runs, unit>>

\* generate_prompt on the ledger as it is after the Started event, then
\* launch_copilot_implementer: true iff the tool ran and exited with 0.
LaunchCopilot ==
    /\ pc = "copilot"
    /\ \E success \in BOOLEAN :
          /\ local' = [local EXCEPT
                          !.feedback = PromptFeedback(ledger,
                                           Unwrap(local.req).id,
                                           local.iteration),
                          !.copilot_success = success]
          /\ env' = [env EXCEPT !.attempts = @ + 1,
                                !.assistant = Observe(@,
                                    IF success THEN "Succeeded" ELSE "Failed")]
    /\ pc' = "validate"
    /\ UNCHANGED <<config, disk, prd, ledger, validation_config,
                   iteration_count, reason, start, runs, unit>>

\* The validation block: run_all on the resolved profile, or (true, None).
RunValidation ==
    /\ pc = "validate"
    /\ IF IsSome(ResolvedProfile(validation_config, prd.validation_profiles))
       THEN \E ok \in [StageNames -> BOOLEAN] :
               LET results == RunAll(ok, local.run_full_tests)
                   failed == FailedOutput(results)
               IN  /\ local' = [local EXCEPT
                                   !.results = results,
                                   !.validation_passed = AllPassed(results),
                                   !.validation_output = failed]
                   /\ env' = [env EXCEPT !.validations = @ + 1,
                                 !.validation = Observe(@,
                                     IF IsSome(failed) THEN Unwrap(failed)
                                     ELSE "Passed")]
       ELSE /\ local' = [local EXCEPT !.validation_passed = TRUE,
                                      !.validation_output = None]
            /\ env' = [env EXCEPT !.validations = @ + 1,
                                  !.validation = Observe(@, "Skipped")]
    /\ pc' = "save_outcome"
    /\ UNCHANGED <<config, disk, prd, ledger, validation_config,
                   iteration_count, reason, start, runs, unit>>

\* prd.update_requirement_status(&req.id, final_status); prd.save(prd_path)?
SaveOutcome ==
    /\ pc = "save_outcome"
    /\ prd' = [prd EXCEPT !.requirements =
                  UpdateRequirementStatus(@, Unwrap(local.req).id,
                      OutcomeStatus(local.copilot_success,
                                    local.validation_passed).final_status)]
    /\ \/ /\ disk' = [disk EXCEPT !.prd = prd']
          /\ pc' = "append_outcome"
          /\ reason' = reason
       \/ /\ disk' = disk
          /\ Abort
    /\ UNCHANGED <<config, ledger, validation_config, iteration_count, local,
                   env, start, runs, unit>>

\* Build the outcome event (with the summary of the failed output, if any),
\* ledger.append(event)?, and return Ok(false).
AppendOutcome ==
    /\ pc = "append_outcome"
    /\ \E summary \in Summaries :
          LET event == OutcomeEvent(local.iteration, Unwrap(local.req).id,
                           OutcomeStatus(local.copilot_success,
                                         local.validation_passed).event_status,
                           local.validation_passed, local.validation_output,
                           summary)
          IN  \/ /\ LedgerAppend(event)
                 /\ Returned(FALSE)
                 /\ local' = NoLocal
              \/ /\ UNCHANGED <<disk, ledger, local>>
                 /\ Abort
    /\ UNCHANGED <<config, prd, validation_config, iteration_count, env,
                   start, runs, unit>>

Next ==
    \/ Load
    \/ LoopTop
    \/ Select
    \/ MarkInProgress
    \/ LogStart
    \/ LaunchCopilot
    \/ RunValidation
    \/ SaveOutcome
    \/ AppendOutcome

Spec == Init /\ [][Next]_vars

(* Several runs on the same files: interruption and restart *)

\* The steps of a run that has loaded its files and has not ended.
RunningSteps ==
    {"loop", "select", "mark", "log_start", "copilot", "validate",
     "save_outcome", "append_outcome"}

\* The steps between the assistant's return and the append of the outcome
\* event.
AfterAssistantSteps == {"validate", "save_outcome", "append_outcome"}

\* The process is interrupted between two steps (run() installs no signal
\* handler and keeps its state in memory): the files stay as they are, the
\* in-memory document, ledger and locals are lost.
Crash ==
    /\ pc \in RunningSteps
    /\ pc' = "crashed"
    /\ reason' = "Interrupted"
    /\ runs' = [runs EXCEPT !.interrupted =
                    IF pc \in AfterAssistantSteps
                    THEN Some(Unwrap(local.req).id) ELSE None]
    /\ prd' = [validation_profiles |-> <<>>, requirements |-> <<>>]
    /\ ledger' = <<>>
    /\ validation_config' = None
    /\ iteration_count' = 0
    /\ local' = NoLocal
    /\ UNCHANGED <<config, disk, env, start, unit>>

\* The command lines explored for a run after the first.
RestartConfigs ==
    [dry_run : BOOLEAN, loop_enabled : BOOLEAN,
     max_iterations : {1, DefaultMaxIterations}]

\* The command is run again on the files the previous run left: a new
\* process with its own command line, which loads everything from disk.
Restart ==
    /\ pc \in {"terminated", "aborted", "crashed"}
    /\ runs.attempts < MaxAttempts
    /\ config' \in RestartConfigs
    /\ pc' = "load"
    /\ reason' = "Running"
    /\ runs' = [runs EXCEPT !.interrupted =
                    IF pc = "crashed" THEN @ ELSE None]
    /\ prd' = [validation_profiles |-> <<>>, requirements |-> <<>>]
    /\ ledger' = <<>>
    /\ validation_config' = None
    /\ iteration_count' = 0
    /\ local' = NoLocal
    /\ env' = NoEnv
    /\ start' = [requirements |-> <<>>, events |-> <<>>]
    /\ UNCHANGED <<disk, unit>>

NextRuns ==
    \/ Next
    \/ Crash
    \/ Restart

\* The files of a first run: no ledger yet or an empty one, and a document
\* that lists one validation profile.
InitRuns ==
    /\ Init
    /\ disk.ledger \in {None, Some(<<>>)}
    /\ disk.prd.validation_profiles = <<"rust-cargo">>

SpecRuns == InitRuns /\ [][NextRuns]_vars

\* The runs that are followed to their end: the cap is within MaxAttempts.
InitLive == Init /\ config.max_iterations <= MaxAttempts

\* Every step of a run is a blocking call that returns, so a run that can
\* take a step takes it.
LiveSpec == InitLive /\ [][Next]_vars /\ WF_vars(Next)

---------------------------------------------------------------------------
(* Vocabulary of the properties *)

Finished == pc \in {"terminated", "aborted"}

LoopRun == config.loop_enabled /\ ~config.dry_run

\* The events the run has appended to its ledger.
Appended == SubSeq(ledger, Len(start.events) + 1, Len(ledger))

\* The k-th attempt of a run that started from an empty ledger left the pair
\* Started, `status` for requirement i at iteration k.
IsPair(events, k, i, status) ==
    /\ events[2 * k - 1] = NewEvent(k, ReqId(i), "Started")
    /\ events[2 * k].iteration = k
    /\ events[2 * k].requirement = ReqId(i)
    /\ events[2 * k].status = status

SingleTodoFromScratch ==
    /\ start.events = <<>>
    /\ start.requirements = <<Requirement(1, "Todo")>>

---------------------------------------------------------------------------
(* C1 *)

LintAlwaysFailsCapThree ==
    /\ pc = "terminated"
    /\ LoopRun
    /\ config.max_iterations = 3
    /\ SingleTodoFromScratch
    /\ env.assistant = "Succeeded"
    /\ env.validation = "Lint"

\* C1: a non-dry-run loop run with cap 3 that started from an empty ledger
\* and one Todo requirement, in which the assistant succeeded every time and
\* the lint stage failed every time, ends with exactly three Started+Failed
\* pairs in the ledger (in memory and in the file), the requirement
\* InProgress, and reason MaxIterationsReached.
C1_ThreeFailedPairsThenCap ==
    LintAlwaysFailsCapThree =>
        /\ Len(ledger) = 6
        /\ \A k \in 1..3 : IsPair(ledger, k, 1, "Failed")
        /\ disk.ledger = Some(ledger)
        /\ prd.requirements = <<Requirement(1, "InProgress")>>
        /\ disk.prd.requirements = prd.requirements
        /\ reason = "MaxIterationsReached"

C1_Witness == LintAlwaysFailsCapThree /\ env.attempts = 3

---------------------------------------------------------------------------
(* C2 *)

\* The first attempt of the run has been validated, and so far the
\* assistant succeeded and validation passed (or was skipped as passing).
FirstAttemptPassesCapTen ==
    /\ LoopRun
    /\ config.max_iterations = DefaultMaxIterations
    /\ SingleTodoFromScratch
    /\ env.assistant = "Succeeded"
    /\ env.validation \in {"Passed", "Skipped"}

\* C2: in a non-dry-run loop run with cap 10 that started from an empty
\* ledger and one Todo requirement, and whose first attempt sees the
\* assistant succeed and validation pass, that attempt is the only one: once
\* it is recorded the ledger holds exactly one Started+Done pair and the
\* requirement is Done, no further attempt starts, and the run ends with
\* AllComplete.
C2_OnePairThenAllComplete ==
    FirstAttemptPassesCapTen =>
        /\ env.attempts = 1
        /\ pc \in {"save_outcome", "append_outcome", "loop", "select",
                   "terminated", "aborted"}
        /\ pc \in {"loop", "select", "terminated"} =>
              /\ Len(ledger) = 2
              /\ IsPair(ledger, 1, 1, "Done")
              /\ disk.ledger = Some(ledger)
              /\ prd.requirements = <<Requirement(1, "Done")>>
              /\ disk.prd.requirements = prd.requirements
        /\ pc = "terminated" => reason = "AllComplete"
        /\ pc = "aborted" <=> reason = "Error"
        /\ pc \notin {"terminated", "aborted"} => reason = "Running"

C2_Witness ==
    /\ FirstAttemptPassesCapTen
    /\ pc = "terminated"
    /\ env.validation = "Passed"

---------------------------------------------------------------------------
(* C3 *)

\* C3: every loop-mode run ends, whatever the assistant and validation
\* answer, and the assistant is invoked at most max_iterations times in one
\* run, also when the ledger already holds larger iteration numbers.
C3_TerminatesWithinCap ==
    /\ [](config.loop_enabled => env.attempts <= config.max_iterations)
    /\ (config.loop_enabled => <>Finished)

\* A run that used its whole cap although the ledger it loaded already
\* held iteration numbers above the cap.
C3_Witness ==
    /\ pc = "terminated"
    /\ reason = "MaxIterationsReached"
    /\ config.max_iterations = 3
    /\ env.attempts = 3
    /\ LatestIteration(start.events) > config.max_iterations
    /\ env.assistant = "Mixed"

---------------------------------------------------------------------------
(* C4 *)

Skipped(r) == r.status \in {"Done", "Blocked"}
Wanted(r) == r.status \in {"Todo", "InProgress"}

\* C4: selection returns the first requirement in list order that is Todo or
\* InProgress, and none iff every requirement is Done or Blocked; the
\* requirement an attempt works on is the one selection returned.
C4_SelectsFirstEligible ==
    LET reqs == prd.requirements
        i == NextReq(reqs)
    IN  /\ i \in 0..Len(reqs)
        /\ (i = 0) <=> (\A k \in 1..Len(reqs) : Skipped(reqs[k]))
        /\ i /= 0 => /\ Wanted(reqs[i])
                     /\ \A k \in 1..(i - 1) : Skipped(reqs[k])
        /\ pc = "mark" => i /= 0 /\ local.req = Some(reqs[i])

\* The second requirement is selected behind a Blocked one.
C4_Witness ==
    /\ pc = "mark"
    /\ Len(prd.requirements) = 2
    /\ prd.requirements[1].status = "Blocked"
    /\ local.req = Some(Requirement(2, "InProgress"))

---------------------------------------------------------------------------
(* C5 *)

\* C5: a loop-mode run that ends while no requirement is eligible (all are
\* Done or Blocked) ends with reason AllComplete, never
\* MaxIterationsReached, whatever the iteration cap.
C5_NoEligibleEndsAllComplete ==
    (pc = "terminated" /\ config.loop_enabled /\ NextReq(prd.requirements) = 0)
        => reason = "AllComplete"

---------------------------------------------------------------------------
(* C6 *)

LastEvent(events) == events[Len(events)]

---------------------------------------------------------------------------
(* C7 *)

ReqById(requirements, id) ==
    requirements[CHOOSE k \in 1..Len(requirements) : requirements[k].id = id]

BothSucceeded == local.copilot_success /\ local.validation_passed

\* C7: once an attempt has set the final status, the attempted requirement
\* is Done iff the assistant succeeded and validation passed, and
\* InProgress, hence still eligible, otherwise; the saved document agrees.
C7_DoneIffBothSucceeded ==
    pc = "append_outcome" =>
        LET r == ReqById(prd.requirements, Unwrap(local.req).id)
        IN  /\ r.status = "Done" <=> BothSucceeded
            /\ r.status = "InProgress" <=> ~BothSucceeded
            /\ ~BothSucceeded => Wanted(r) /\ NextReq(prd.requirements) /= 0
            /\ disk.prd = prd

C7_Witness ==
    /\ pc = "append_outcome"
    /\ ~local.copilot_success
    /\ local.validation_passed
    /\ ReqById(prd.requirements, Unwrap(local.req).id).status = "InProgress"

---------------------------------------------------------------------------
(* C8 *)

\* C8: the step that ends an attempt without I/O error appends exactly one
\* event, for the attempt's iteration and requirement, Done iff the
\* assistant succeeded and validation passed and Failed otherwise, carrying
\* validation_passed, and Done/Failed agrees with the Done/InProgress status
\* of the requirement; no step but the Started append and this one changes
\* the ledger of a run.
C8_OneOutcomeEventPerAttempt ==
    [][/\ (pc = "append_outcome" /\ pc' /= "aborted") =>
            LET e == LastEvent(ledger')
                r == ReqById(prd'.requirements, Unwrap(local.req).id)
            IN  /\ ledger' = Append(ledger, e)
                /\ e.iteration = local.iteration
                /\ e.requirement = Unwrap(local.req).id
                /\ e.status = IF BothSucceeded THEN "Done" ELSE "Failed"
                /\ e.validation_passed = Some(local.validation_passed)
                /\ e.status = "Done" <=> r.status = "Done"
                /\ e.status = "Failed" <=> r.status = "InProgress"
       /\ pc = "log_start" =>
            \/ ledger' = ledger
            \/ /\ Len(ledger') = Len(ledger) + 1
               /\ LastEvent(ledger').status = "Started"
       /\ pc \notin {"load", "log_start", "append_outcome"} => ledger' = ledger
      ]_vars

C8_Witness ==
    /\ pc = "loop"
    /\ env.attempts = 2
    /\ LastEvent(ledger).status = "Failed"
    /\ LastEvent(ledger).validation_passed = Some(TRUE)

---------------------------------------------------------------------------
(* C9 *)

\* C9 as stated: every Failed event the run appended carries a message.
C9_EveryFailedEventHasMessage ==
    \A i \in 1..Len(Appended) :
        Appended[i].status = "Failed" => IsSome(Appended[i].message)

\* C9 as amended: a Failed event the run appended carries a message iff its
\* validation_passed is false; the Failed event of an attempt in which only
\* the assistant failed carries none, and neither does a Done event.
C9_MessageIffValidationFailed ==
    \A i \in 1..Len(Appended) :
        /\ Appended[i].status = "Failed" =>
              (IsSome(Appended[i].message)
                  <=> Appended[i].validation_passed = Some(FALSE))
        /\ Appended[i].status = "Done" => Appended[i].message = None

C9_Witness ==
    /\ Len(Appended) = 4
    /\ Appended[2].status = "Failed"
    /\ Appended[2].validation_passed = Some(FALSE)
    /\ Appended[2].message = Some("summary")
    /\ Appended[4].status = "Failed"
    /\ Appended[4].validation_passed = Some(TRUE)
    /\ Appended[4].message = None

---------------------------------------------------------------------------
(* C10 *)

Count(events, statuses) ==
    Cardinality({i \in 1..Len(events) : events[i].status \in statuses})

StartedCount == Count(Appended, {"Started"})
OutcomeCount == Count(Appended, {"Done", "Failed"})

PersistedStatus(id) == ReqById(disk.prd.requirements, id).status

\* C10: in a run, the k-th outcome is recorded after the k-th validation,
\* which follows the k-th assistant invocation, which follows the k-th
\* Started event, which follows the previous outcome; the Started event is
\* appended and the assistant invoked only while the saved document shows
\* the selected requirement InProgress (never Todo), and the assistant is
\* invoked right after the Started event of its attempt; the document is
\* saved only before the Started event or between validation and outcome.
C10_StepOrder ==
    /\ [](/\ OutcomeCount <= env.validations
          /\ env.validations <= env.attempts
          /\ env.attempts <= StartedCount
          /\ StartedCount <= OutcomeCount + 1)
    /\ [][/\ StartedCount' /= StartedCount =>
               /\ PersistedStatus(Unwrap(local.req).id) = "InProgress"
               /\ disk.prd = prd
          /\ env'.attempts /= env.attempts =>
               /\ PersistedStatus(Unwrap(local.req).id) = "InProgress"
               /\ LastEvent(Unwrap(disk.ledger))
                    = NewEvent(local.iteration, Unwrap(local.req).id, "Started")
          /\ (pc /= "load" /\ disk'.prd /= disk.prd) =>
               \/ StartedCount = OutcomeCount
               \/ /\ env.validations = StartedCount
                  /\ OutcomeCount = StartedCount - 1
         ]_vars

\* The assistant is about to run for a requirement that was Todo.
C10_Witness ==
    /\ pc = "copilot"
    /\ Unwrap(local.req).status = "Todo"
    /\ PersistedStatus(Unwrap(local.req).id) = "InProgress"

---------------------------------------------------------------------------
(* C11 *)

\* The lines of the ledger file.
DiskEvents == IF IsSome(disk.ledger) THEN Unwrap(disk.ledger) ELSE <<>>

\* The greatest iteration number among the events, 0 when there is none.
Greatest(events) ==
    LET its == {events[k].iteration : k \in 1..Len(events)}
    IN  IF its = {} THEN 0 ELSE CHOOSE m \in its : \A n \in its : n <= m

NonDecreasing(events) ==
    \A k \in 1..(Len(events) - 1) :
        events[k].iteration <= events[k + 1].iteration

\* C11: over any sequence of runs that starts from an empty ledger, runs
\* resumed from a reloaded ledger and interrupted runs included, the
\* iteration of an attempt is one more than the greatest iteration in the
\* ledger as the attempt found it (whatever the pass count of the run), its
\* Started event carries that number, and the iteration numbers in the
\* ledger file are non-decreasing in append order.
C11_IterationFromLedgerNonDecreasing ==
    /\ NonDecreasing(DiskEvents)
    /\ pc \in {"mark", "log_start"} =>
          local.iteration = Greatest(DiskEvents) + 1
    /\ pc \in {"copilot"} \cup AfterAssistantSteps =>
          /\ LastEvent(DiskEvents).iteration = local.iteration
          /\ Greatest(SubSeq(DiskEvents, 1, Len(DiskEvents) - 1))
                 = local.iteration - 1

\* A resumed run is in its first pass and its attempt has iteration 3: the
\* ledger it reloaded holds a completed attempt and an interrupted one.
C11_Witness ==
    /\ pc = "copilot"
    /\ config.loop_enabled
    /\ iteration_count = 1
    /\ local.iteration = 3
    /\ Len(start.events) = 3
    /\ DiskEvents[3] = NewEvent(2, ReqId(1), "Started")
    /\ DiskEvents[4] = NewEvent(3, ReqId(1), "Started")

---------------------------------------------------------------------------
(* C12 *)

\* C12: a run that was interrupted after the assistant had run and before
\* the outcome event was appended is restarted (not as a dry run): the first
\* selection of the restarted run never finds nothing to do, it selects the
\* requirement of the interrupted attempt, and the new Started event has an
\* iteration greater than every iteration the reloaded ledger holds.
C12_RestartRepeatsInterruptedAttempt ==
    (/\ IsSome(runs.interrupted)
     /\ ~config.dry_run
     /\ env.attempts = 0
     /\ pc \notin {"crashed", "load"})
    => /\ reason /= "AllComplete"
       /\ pc \in {"mark", "log_start", "copilot"} =>
             /\ Unwrap(local.req).id = Unwrap(runs.interrupted)
             /\ local.iteration > Greatest(start.events)
       /\ pc = "copilot" =>
             LastEvent(DiskEvents)
                 = NewEvent(local.iteration, Unwrap(runs.interrupted), "Started")

---------------------------------------------------------------------------
(* C13 *)

\* C13: in the recording step of every attempt, the outcome event of the
\* attempt is in the ledger file by the time the final status is written to
\* the requirement document.
C13_OutcomeEventBeforeStatus ==
    [][(pc = "save_outcome" /\ pc' /= "aborted")
       => /\ LastEvent(DiskEvents).status \in {"Done", "Failed"}
          /\ LastEvent(DiskEvents).iteration = local.iteration]_vars

---------------------------------------------------------------------------
(* C14 *)

\* C14: every change of a requirement's status in memory is saved before any
\* further side-effecting step: at each step of a run (selection, the two
\* ledger appends, the assistant, the validation commands) the document on
\* disk equals the document in memory.
C14_DiskDocumentEqualsMemory ==
    pc \in RunningSteps => disk.prd = prd

\* The ledger append of the outcome is about to happen, and the run has
\* changed the selected requirement from Todo to Done, in memory and on
\* disk.
C14_Witness ==
    /\ pc = "append_outcome"
    /\ ReqById(start.requirements, Unwrap(local.req).id).status = "Todo"
    /\ ReqById(prd.requirements, Unwrap(local.req).id).status = "Done"
    /\ PersistedStatus(Unwrap(local.req).id) = "Done"

---------------------------------------------------------------------------
(* C15 *)

\* A save that left the file different from the document in memory, or an
\* append that left the ledger file as it was: the write failed.
WriteFailed ==
    \/ pc \in {"mark", "save_outcome"} /\ disk'.prd /= prd'
    \/ pc \in {"log_start", "append_outcome"} /\ disk'.ledger = disk.ledger

\* C15: a failed save or append aborts the run at that step with an error,
\* and an aborted run takes no further step: no assistant invocation, no
\* validation, no append, no save.
C15_FailedWriteAbortsRun ==
    [][/\ WriteFailed => pc' = "aborted" /\ reason' = "Error"
       /\ pc = "aborted" => pc' = "aborted" /\ disk' = disk /\ env' = env]_vars

\* The save of the final status failed after the assistant and validation
\* had run: the run is aborted with Done in memory and InProgress on disk.
C15_Witness ==
    /\ pc = "aborted"
    /\ reason = "Error"
    /\ env.validations = 1
    /\ LastEvent(ledger).status = "Started"
    /\ ReqById(prd.requirements, Unwrap(local.req).id).status = "Done"
    /\ PersistedStatus(Unwrap(local.req).id) = "InProgress"

---------------------------------------------------------------------------
(* C16 *)

\* The events the run appended are all for one requirement.
OneRequirementAttempted ==
    \A k \in 1..Len(Appended) : Appended[k].requirement = Appended[1].requirement

\* C16: a failure of the assistant does not end the run: the step after the
\* assistant is validation, the attempt is recorded with a Failed event and
\* the requirement stays InProgress in the document, a loop run goes back to
\* the top of its loop, and a loop run whose assistant fails every time
\* attempts the same requirement again and again and ends by the cap, after
\* max_iterations attempts.
C16_AssistantFailureIsRetried ==
    /\ [][/\ pc = "copilot" => pc' = "validate" /\ reason' = reason
          /\ (pc = "append_outcome" /\ ~local.copilot_success
              /\ pc' /= "aborted")
             => /\ LastEvent(ledger').status = "Failed"
                /\ LastEvent(ledger').requirement = Unwrap(local.req).id
                /\ ReqById(disk'.prd.requirements,
                           Unwrap(local.req).id).status = "InProgress"
                /\ config.loop_enabled => pc' = "loop"]_vars
    /\ [](LoopRun /\ env.assistant = "Failed"
          => /\ OneRequirementAttempted
             /\ pc = "terminated"
                => /\ reason = "MaxIterationsReached"
                   /\ env.attempts = config.max_iterations
                   /\ OutcomeCount = config.max_iterations
                   /\ Count(Appended, {"Failed"}) = config.max_iterations)

\* A loop run with cap 3 ended by the cap after three attempts in which the
\* assistant failed and validation passed.
C16_Witness ==
    /\ LoopRun
    /\ config.max_iterations = 3
    /\ pc = "terminated"
    /\ env.assistant = "Failed"
    /\ env.validation = "Passed"
    /\ env.attempts = 3

---------------------------------------------------------------------------
(* C17 *)

\* The two cases of the claim: no validation configuration was loaded, or
\* the first profile the document lists is not defined in it.
NoProfileToRun ==
    \/ validation_config = None
    \/ /\ prd.validation_profiles /= <<>>
       /\ prd.validation_profiles[1] \notin Unwrap(validation_config)

\* C17: with no validation configuration, or with a first listed profile
\* that the configuration does not define (whatever the document lists
\* after it), no stage runs and validation counts as passed: the
\* requirement is saved as Done exactly when the assistant succeeded, and
\* the outcome event is Done exactly then, with validation_passed = true
\* and no message.
C17_UnresolvedProfileSkipsValidation ==
    [][(pc = "append_outcome" /\ NoProfileToRun /\ pc' /= "aborted")
       => LET event == LastEvent(ledger')
          IN  /\ local.results = <<>>
              /\ event.validation_passed = Some(TRUE)
              /\ event.message = None
              /\ event.status = "Done" <=> local.copilot_success
              /\ event.status = "Failed" <=> ~local.copilot_success
              /\ PersistedStatus(event.requirement) = "Done"
                     <=> local.copilot_success]_vars

\* The document lists node-npm, then rust-cargo; the configuration defines
\* rust-cargo only; the attempt ended Done without validation.
C17_Witness ==
    /\ prd.validation_profiles = <<"node-npm", "rust-cargo">>
    /\ validation_config = Some({"rust-cargo"})
    /\ pc \in {"loop", "terminated"}
    /\ env.validation = "Skipped"
    /\ Len(Appended) = 2
    /\ LastEvent(ledger).status = "Done"
    /\ LastEvent(ledger).validation_passed = Some(TRUE)
    /\ LastEvent(ledger).message = None

---------------------------------------------------------------------------
(* C18 *)

\* C18: no step of a dry run changes a file or runs the assistant or a
\* validation command: the document and the ledger file, its existence
\* included, stay as they were before the run.
C18_DryRunWritesNothing ==
    [][config.dry_run => disk' = disk /\ env' = env]_vars

---------------------------------------------------------------------------
(* C19 *)

\* The stages whose commands the validation block of the attempt ran.
StagesRun == {local.results[k].stage : k \in 1..Len(local.results)}

\* C19: in every attempt with a resolved profile, whose iteration is the
\* number of its Started event, the greatest in the ledger, the test stage
\* is part of the pipeline exactly when that iteration is a multiple of 5:
\* then the pipeline is fmt, lint, typecheck, test up to the first failure,
\* otherwise it is fmt, lint, typecheck up to the first failure.
C19_TestStageEveryFifthIteration ==
    (/\ pc = "save_outcome"
     /\ IsSome(ResolvedProfile(validation_config, prd.validation_profiles)))
    => LET iteration == Greatest(ledger)
           pipeline == IF iteration % 5 = 0
                       THEN <<"Fmt", "Lint", "Typecheck", "Test">>
                       ELSE <<"Fmt", "Lint", "Typecheck">>
           n == Len(local.results)
       IN  /\ LastEvent(ledger) = NewEvent(iteration, Unwrap(local.req).id,
                                           "Started")
           /\ n \in 1..Len(pipeline)
           /\ \A k \in 1..n : local.results[k].stage = pipeline[k]
           /\ \A k \in 1..(n - 1) : local.results[k].success
           /\ n < Len(pipeline) => ~local.results[n].success
           /\ local.validation_passed <=>
                  (n = Len(pipeline) /\ local.results[n].success)

\* The first pass of a run that loaded a ledger of four attempts is
\* iteration 5, and its validation ran the test stage.
C19_Witness ==
    /\ pc = "save_outcome"
    /\ iteration_count = 1
    /\ local.iteration = 5
    /\ "Test" \in StagesRun
    /\ local.validation_passed

---------------------------------------------------------------------------
(* C20 *)

---------------------------------------------------------------------------
(* C21 *)

\* What a step may do to a requirement list: the list keeps its length and
\* its ids, and a requirement whose status changes is the selected one, was
\* Todo or InProgress, and becomes InProgress or Done.
StatusFrame(before, after) ==
    /\ Len(after) = Len(before)
    /\ \A k \in 1..Len(before) :
          /\ after[k].id = before[k].id
          /\ after[k].status /= before[k].status
             => /\ IsSome(local.req)
                /\ before[k].id = Unwrap(local.req).id
                /\ before[k].status \in {"Todo", "InProgress"}
                /\ after[k].status \in {"InProgress", "Done"}

\* C21: no step of a run assigns Blocked or Todo, changes a requirement that
\* is Done or Blocked, adds or removes a requirement, or changes the status
\* of a requirement other than the one selected for the attempt; this holds
\* for the document on disk and, once loaded, for the one in memory.
C21_OnlySelectedRequirementChanges ==
    [][/\ StatusFrame(disk.prd.requirements, disk'.prd.requirements)
       /\ pc /= "load" => StatusFrame(prd.requirements, prd'.requirements)]_vars

\* The second requirement was attempted and saved as Done; the Blocked
\* requirement before it is as it was.
C21_Witness ==
    /\ pc = "append_outcome"
    /\ Len(start.requirements) = 2
    /\ start.requirements[1].status = "Blocked"
    /\ start.requirements[2].status = "Todo"
    /\ disk.prd.requirements[1].status = "Blocked"
    /\ disk.prd.requirements[2].status = "Done"
    /\ Unwrap(local.req).id = ReqId(2)

---------------------------------------------------------------------------
(* ledger.rs on its own: the file as bytes, one Ledger value, its calls *)

\* Calls of Ledger::append explored on one file.
MaxAppends == 2

\* #[serde(rename_all = "snake_case")] on EventStatus.
StatusString(status) ==
    CASE status = "Started" -> "started"
      [] status = "InProgress" -> "in_progress"
      [] status = "Done" -> "done"
      [] status = "Failed" -> "failed"

StatusOfString(string) ==
    CASE string = "started" -> Some("Started")
      [] string = "in_progress" -> Some("InProgress")
      [] string = "done" -> Some("Done")
      [] string = "failed" -> Some("Failed")
      [] OTHER -> None

\* Variant of ToJson that also leaves out an empty message.
ToJsonWithoutEmptyMessage(event) ==
    [iteration |-> Some(event.iteration),
     requirement |-> Some(event.requirement),
     status |-> Some(StatusString(event.status)),
     validationPassed |-> event.validation_passed,
     message |-> IF event.message = Some("") THEN None ELSE event.message]

\* serde_json::to_string(&event): one JSON object on one line, the value of
\* each key or None for a key that is left out (skip_serializing_if =
\* "Option::is_none").  The timestamp is not modelled.
ToJson(event) ==
    [iteration |-> Some(event.iteration),
     requirement |-> Some(event.requirement),
     status |-> Some(StatusString(event.status)),
     validationPassed |-> event.validation_passed,
     message |-> event.message]

\* serde_json::from_str::<LedgerEvent>: iteration, requirement and status
\* are required, a missing optional key reads as None; None for an error.
FromJson(object) ==
    IF /\ IsSome(object.iteration)
       /\ IsSome(object.requirement)
       /\ IsSome(object.status)
       /\ IsSome(StatusOfString(Unwrap(object.status)))
    THEN Some([iteration |-> Unwrap(object.iteration),
               requirement |-> Unwrap(object.requirement),
               status |-> Unwrap(StatusOfString(Unwrap(object.status))),
               validation_passed |-> object.validationPassed,
               message |-> object.message])
    ELSE None

\* The bytes of a ledger file, in pieces: the text of a JSON object, a
\* proper non-empty prefix of such a text, a newline.
JsonText(object) == [kind |-> "json", text |-> Some(object)]
CutText(object) == [kind |-> "cut", text |-> Some(object)]
Newline == [kind |-> "nl", text |-> None]

\* The line the writeln! of append emits for an event.
EventLine(event) == <<JsonText(ToJson(event)), Newline>>

\* The bytes of the file, none when it does not exist.
Bytes(f) == IF IsSome(f) THEN Unwrap(f) ELSE <<>>

\* BufRead::lines: the pieces between newlines; a last line without a
\* newline counts when it is not empty.
RECURSIVE SplitLines(_, _)
SplitLines(bytes, current) ==
    IF bytes = <<>>
    THEN IF current = <<>> THEN <<>> ELSE <<current>>
    ELSE IF Head(bytes).kind = "nl"
         THEN <<current>> \o SplitLines(Tail(bytes), <<>>)
         ELSE SplitLines(Tail(bytes), Append(current, Head(bytes)))

Lines(f) == SplitLines(Bytes(f), <<>>)

\* line.trim().is_empty()
IsBlank(line) == line = <<>>

\* serde_json::from_str(&line): the event of a line that is exactly the text
\* of one object, None for any other line.
ParseLine(line) ==
    IF Len(line) = 1 /\ line[1].kind = "json"
    THEN FromJson(Unwrap(line[1].text))
    ELSE None

\* Variant of ReadLines that drops the lines that do not parse.
RECURSIVE ReadLinesSkippingBad(_, _)
ReadLinesSkippingBad(lines, events) ==
    IF lines = <<>> THEN [ok |-> TRUE, events |-> events]
    ELSE IF IsBlank(Head(lines)) \/ ~IsSome(ParseLine(Head(lines)))
         THEN ReadLinesSkippingBad(Tail(lines), events)
         ELSE ReadLinesSkippingBad(Tail(lines),
                  Append(events, Unwrap(ParseLine(Head(lines)))))

\* The loop of Ledger::from_file over the lines: blank lines are skipped, a
\* line that does not parse ends the load with an error.
RECURSIVE ReadLines(_, _)
ReadLines(lines, events) ==
    IF lines = <<>> THEN [ok |-> TRUE, events |-> events]
    ELSE IF IsBlank(Head(lines)) THEN ReadLines(Tail(lines), events)
         ELSE IF ~IsSome(ParseLine(Head(lines)))
              THEN [ok |-> FALSE, events |-> <<>>]
              ELSE ReadLines(Tail(lines),
                       Append(events, Unwrap(ParseLine(Head(lines)))))

\* Ledger::from_file without I/O errors: a missing file is an empty ledger.
FromFile(f) ==
    IF IsSome(f) THEN ReadLines(Lines(f), <<>>)
    ELSE [ok |-> TRUE, events |-> <<>>]

\* The events the callers of the library append: both requirements, both
\* outcomes, iterations in and out of order, with and without the optional
\* fields.
LibEvents ==
    {NewEvent(1, ReqId(1), "Started"),
     NewEvent(2, ReqId(1), "Done"),
     NewEvent(1, ReqId(2), "Done"),
     WithValidationOutput(
         WithValidation(NewEvent(1, ReqId(1), "Failed"), FALSE), ""),
     WithValidation(NewEvent(2, ReqId(2), "Failed"), TRUE)}

\* An object that lacks the required key `status`.
ObjectWithoutStatus ==
    [ToJson(NewEvent(1, ReqId(1), "Done")) EXCEPT !.status = None]

\* The ledger files the library is called on: no file, an empty file, a
\* blank line, whole lines, a last line without its newline, a cut last
\* line, a bad line before a good one, a blank line between two events.
LibFiles ==
    {None, Some(<<>>), Some(<<Newline>>),
     Some(EventLine(NewEvent(1, ReqId(1), "Failed"))),
     Some(<<JsonText(ToJson(NewEvent(1, ReqId(1), "Failed")))>>),
     Some(<<CutText(ToJson(NewEvent(1, ReqId(1), "Failed")))>>),
     Some(<<JsonText(ObjectWithoutStatus), Newline>>
          \o EventLine(NewEvent(1, ReqId(2), "Done"))),
     Some(EventLine(NewEvent(2, ReqId(1), "Started")) \o <<Newline>>
          \o EventLine(NewEvent(1, ReqId(2), "Done")))}

\* The state of a run while only the library is exercised: no run.
NoRun ==
    /\ config = [dry_run |-> FALSE, loop_enabled |-> FALSE,
                 max_iterations |-> 0]
    /\ disk = [prd |-> [validation_profiles |-> <<>>, requirements |-> <<>>],
               ledger |-> None, validation |-> None]
    /\ prd = [validation_profiles |-> <<>>, requirements |-> <<>>]
    /\ ledger = <<>>
    /\ validation_config = None
    /\ pc = "library"
    /\ iteration_count = 0
    /\ local = NoLocal
    /\ reason = "Running"
    /\ env = NoEnv
    /\ start = [requirements |-> <<>>, events |-> <<>>]
    /\ runs = NoRuns

runVars ==
    <<config, disk, prd, ledger, validation_config, pc, iteration_count,
      local, reason, env, start, runs>>

InitLedger ==
    /\ NoRun
    /\ file \in LibFiles
    /\ lib = NoLib
    /\ profile = NoProfile
    /\ call = NoCall

\* A Ledger value as a constructor returns it.
NewLedger(backed, events, origin) ==
    [NoLib EXCEPT !.obj = Some([backed |-> backed, events |-> events]),
                  !.result = "Ok", !.origin = origin]

\* Ledger::new: an in-memory ledger without a path.
LedgerNew ==
    /\ pc = "library"
    /\ lib' = [NewLedger(FALSE, <<>>, "memory") EXCEPT
                  !.op = "new", !.calls = lib.calls]
    /\ UNCHANGED <<runVars, call, file, profile>>

\* Ledger::create: the file is created when it is missing and left as it is
\* otherwise; either way the ledger starts with no events.
LedgerCreate ==
    /\ pc = "library"
    /\ \/ /\ file' = IF IsSome(file) THEN file ELSE Some(<<>>)
          /\ lib' = [NewLedger(TRUE, <<>>,
                               IF Bytes(file) = <<>> THEN "fresh" ELSE "over")
                        EXCEPT !.op = "create", !.calls = lib.calls]
       \/ /\ file' = file
          /\ lib' = [NoLib EXCEPT !.op = "create", !.result = "Err",
                                  !.calls = lib.calls]
    /\ UNCHANGED <<runVars, call, profile>>

\* Ledger::from_file: the events of the file, or an error and no ledger.
LedgerFromFile ==
    /\ pc = "library"
    /\ \/ LET loaded == FromFile(file)
          IN  lib' = IF loaded.ok
                     THEN [NewLedger(TRUE, loaded.events,
                                     IF Bytes(file) = <<>> THEN "fresh"
                                     ELSE "loaded")
                              EXCEPT !.op = "from_file", !.calls = lib.calls]
                     ELSE [NoLib EXCEPT !.op = "from_file", !.result = "Err",
                                        !.calls = lib.calls]
       \/ /\ IsSome(file)
          /\ lib' = [NoLib EXCEPT !.op = "from_file", !.result = "Err",
                                  !.calls = lib.calls]
    /\ UNCHANGED <<runVars, call, file, profile>>

\* What a failed append can leave at the end of the file: nothing, a part
\* of the object's text, or the whole text without its newline (the text
\* and the newline are two writes).
FailedWrites(event) ==
    {<<>>, <<CutText(ToJson(event))>>, <<JsonText(ToJson(event))>>}

\* Variant of LedgerAppendEvent's failure that pushes the event all the
\* same.
AppendFailedPushed(event) ==
    /\ \E written \in FailedWrites(event) :
          file' = IF written = <<>> THEN file
                  ELSE Some(Bytes(file) \o written)
    /\ lib' = [lib EXCEPT !.obj = Some([Unwrap(@) EXCEPT
                                           !.events = Append(@, event)]),
                          !.op = "append", !.result = "Err",
                          !.arg = Some(event), !.failed = TRUE,
                          !.calls = @ + 1, !.answer = None]

\* Ledger::append when the open or a write fails: the error is returned
\* before the push.
AppendFailed(event) ==
    /\ \E written \in FailedWrites(event) :
          file' = IF written = <<>> THEN file
                  ELSE Some(Bytes(file) \o written)
    /\ lib' = [lib EXCEPT !.op = "append", !.result = "Err",
                          !.arg = Some(event), !.failed = TRUE,
                          !.calls = @ + 1, !.answer = None]

\* Ledger::append: with a path, the line is written at the end of the file
\* (which is created when missing), then the event is pushed.
LedgerAppendEvent ==
    /\ pc = "library"
    /\ IsSome(lib.obj)
    /\ lib.calls < MaxAppends
    /\ \E event \in LibEvents :
          \/ /\ file' = IF Unwrap(lib.obj).backed
                        THEN Some(Bytes(file) \o EventLine(event))
                        ELSE file
             /\ lib' = [lib EXCEPT !.obj = Some([Unwrap(@) EXCEPT
                                                    !.events = Append(@, event)]),
                                   !.op = "append", !.result = "Ok",
                                   !.arg = Some(event),
                                   !.calls = @ + 1, !.answer = None]
          \/ /\ Unwrap(lib.obj).backed
             /\ AppendFailed(event)
    /\ UNCHANGED <<runVars, call, profile>>

\* latest_iteration, events_for_requirement and is_requirement_failed asked
\* of the ledger for one requirement id.
LedgerQuery ==
    /\ pc = "library"
    /\ IsSome(lib.obj)
    /\ \E req_id \in {ReqId(1), ReqId(2)} :
          LET events == Unwrap(lib.obj).events
          IN  lib' = [lib EXCEPT !.op = "query", !.answer = Some(
                         [req_id |-> req_id,
                          latest_iteration |-> LatestIteration(events),
                          events_for_requirement |->
                              EventsForRequirement(events, req_id),
                          is_requirement_failed |->
                              IsRequirementFailed(events, req_id)])]
    /\ UNCHANGED <<runVars, call, file, profile>>

NextLedger ==
    \/ LedgerNew
    \/ LedgerCreate
    \/ LedgerFromFile
    \/ LedgerAppendEvent
    \/ LedgerQuery

SpecLedger == InitLedger /\ [][NextLedger]_vars

---------------------------------------------------------------------------
(* C22 *)

\* The events of the Ledger value of the harness.
LibEventsHeld == Unwrap(lib.obj).events

\* C22: whatever events were appended to a ledger, in whatever order of
\* their iteration numbers, latest_iteration() is the greatest iteration
\* among them, and 0 when the ledger is empty.
C22_LatestIterationIsMaximum ==
    IsSome(lib.answer)
    => /\ Unwrap(lib.answer).latest_iteration = Greatest(LibEventsHeld)
       /\ LibEventsHeld = <<>> => Unwrap(lib.answer).latest_iteration = 0

\* Iteration 2 was appended before iteration 1, and the answer is 2.
C22_Witness ==
    /\ IsSome(lib.answer)
    /\ Len(LibEventsHeld) = 2
    /\ LibEventsHeld[1].iteration = 2
    /\ LibEventsHeld[2].iteration = 1
    /\ Unwrap(lib.answer).latest_iteration = 2

---------------------------------------------------------------------------
(* C23 *)

\* C23: a file-backed ledger that starts empty (created on a path with no
\* file or an empty one, or loaded from such a path) and to which events
\* were appended, every append succeeding: from_file on its file succeeds
\* and yields exactly the events appended, in the same order.
C23_AppendThenReloadRoundTrip ==
    (IsSome(lib.obj) /\ lib.origin = "fresh" /\ ~lib.failed)
    => FromFile(file) = [ok |-> TRUE, events |-> LibEventsHeld]

\* Two events were appended to a fresh ledger, one of them with
\* validationPassed and an empty message, and the file holds two lines.
C23_Witness ==
    /\ IsSome(lib.obj)
    /\ lib.origin = "fresh"
    /\ ~lib.failed
    /\ Len(LibEventsHeld) = 2
    /\ LibEventsHeld[1].message = Some("")
    /\ LibEventsHeld[2].message = None
    /\ Len(Lines(file)) = 2

---------------------------------------------------------------------------
(* C24 *)

\* C24: is_requirement_failed(id) is true exactly when some event for id is
\* Failed and no event for id was appended after it; so it is false without
\* events for id, whatever the events of other requirements, and false once
\* a Done or Started event for id follows the Failed one.
C24_FailedIffLastEventForIdFailed ==
    IsSome(lib.answer)
    => LET answer == Unwrap(lib.answer)
           events == LibEventsHeld
       IN  answer.is_requirement_failed
           <=> \E k \in 1..Len(events) :
                  /\ events[k].requirement = answer.req_id
                  /\ events[k].status = "Failed"
                  /\ \A m \in (k + 1)..Len(events) :
                         events[m].requirement /= answer.req_id

\* A Failed event for the first requirement, then a Done event for it: the
\* answer for the first requirement is false.
C24_Witness ==
    /\ IsSome(lib.answer)
    /\ Unwrap(lib.answer).req_id = ReqId(1)
    /\ ~Unwrap(lib.answer).is_requirement_failed
    /\ Len(LibEventsHeld) = 2
    /\ LibEventsHeld[1].requirement = ReqId(1)
    /\ LibEventsHeld[1].status = "Failed"
    /\ LibEventsHeld[2].requirement = ReqId(1)
    /\ LibEventsHeld[2].status = "Done"

---------------------------------------------------------------------------
(* C25 *)

\* The lines of the file that are not blank.
DurableLines == SelectSeq(Lines(file), LAMBDA line : ~IsBlank(line))

\* The events are, in order, what the first non-blank lines of the file
\* hold.
PrefixOfDurable(events) ==
    /\ Len(events) <= Len(DurableLines)
    /\ \A k \in 1..Len(events) :
          DurableLines[k] = <<JsonText(ToJson(events[k]))>>

\* C25: an append that cannot persist its event returns an error and leaves
\* the in-memory events as they were, and at every step the in-memory
\* events of a file-backed ledger are a prefix of the events in its file.
C25_MemoryIsPrefixOfDurable ==
    /\ [][(lib'.op = "append" /\ lib'.result = "Err" /\ lib' /= lib)
          => lib'.obj = lib.obj]_vars
    /\ []((IsSome(lib.obj) /\ Unwrap(lib.obj).backed)
          => PrefixOfDurable(LibEventsHeld))

---------------------------------------------------------------------------
(* C26 *)

IsPrefix(s, t) == Len(s) <= Len(t) /\ SubSeq(t, 1, Len(s)) = s

\* C26: every ledger operation leaves the lines the file had as the first
\* lines of the file, unchanged and in their order, and a successful append
\* to a file-backed ledger adds exactly one line at the end, the line of the
\* event.
C26_LinesOnlyAddedAtEnd ==
    [][/\ IsPrefix(Lines(file), Lines(file'))
       /\ (lib'.op = "append" /\ lib'.result = "Ok" /\ lib' /= lib
           /\ Unwrap(lib.obj).backed)
          => Lines(file') = Append(Lines(file),
                                   <<JsonText(ToJson(Unwrap(lib'.arg)))>>)]_vars

---------------------------------------------------------------------------
(* C27 *)

\* The positions of the events of a requirement, and the j-th of them.
PositionsOf(events, req_id) ==
    {k \in 1..Len(events) : events[k].requirement = req_id}

NthPosition(positions, j) ==
    CHOOSE k \in positions : Cardinality({m \in positions : m < k}) = j - 1

\* C27: events_for_requirement(id) holds one entry for every event whose
\* requirement is id and no other entry, in the order of the ledger; it is
\* empty when no event matches.
C27_EventsForRequirementIsSubsequence ==
    IsSome(lib.answer)
    => LET answer == Unwrap(lib.answer)
           positions == PositionsOf(LibEventsHeld, answer.req_id)
           found == answer.events_for_requirement
       IN  /\ Len(found) = Cardinality(positions)
           /\ \A j \in 1..Len(found) :
                  found[j] = LibEventsHeld[NthPosition(positions, j)]

\* Three events, the first and the last for the first requirement: the
\* answer for the first requirement is these two, in that order.
C27_Witness ==
    /\ IsSome(lib.answer)
    /\ Unwrap(lib.answer).req_id = ReqId(1)
    /\ Len(LibEventsHeld) = 3
    /\ LibEventsHeld[1].requirement = ReqId(1)
    /\ LibEventsHeld[2].requirement = ReqId(2)
    /\ LibEventsHeld[3].requirement = ReqId(1)
    /\ Unwrap(lib.answer).events_for_requirement
           = <<LibEventsHeld[1], LibEventsHeld[3]>>

---------------------------------------------------------------------------
(* C28 *)

\* C28: from_file on a file with a non-blank line that is not a parseable
\* event, wherever that line is and also when it is a cut last line,
\* returns an error and no ledger; when it succeeds the events are those of
\* the non-blank lines, in order; a missing file loads as an empty ledger.
C28_BadLineFailsTheLoad ==
    lib.op = "from_file"
    => /\ (\E k \in 1..Len(DurableLines) : ~IsSome(ParseLine(DurableLines[k])))
          => lib.result = "Err"
       /\ lib.result = "Err" => lib.obj = None
       /\ lib.result = "Ok"
          => /\ IsSome(lib.obj)
             /\ Len(LibEventsHeld) = Len(DurableLines)
             /\ \A k \in 1..Len(DurableLines) :
                    ParseLine(DurableLines[k]) = Some(LibEventsHeld[k])
       /\ file = None => lib.result = "Ok" /\ LibEventsHeld = <<>>

\* The file holds a whole line and then a cut one, left by a failed append:
\* the load fails.
C28_Witness ==
    /\ lib.op = "from_file"
    /\ lib.result = "Err"
    /\ lib.obj = None
    /\ Len(Lines(file)) = 2
    /\ IsSome(ParseLine(Lines(file)[1]))
    /\ Lines(file)[2][1].kind = "cut"

---------------------------------------------------------------------------
(* validation.rs on its own *)

\* The most commands a profile holds, over its four stages.
MaxCommands == 3

\* What `sh -c command` comes to: the shell exits with 0, exits with another
\* code, is killed by a signal, or cannot be started.
CommandOutcomes == {"zero", "nonzero", "signal", "unlaunchable"}

\* ExitStatus::success() and ExitStatus::code() of a command that ran.
StatusSuccess(outcome) == outcome = "zero"

StatusCode(outcome) ==
    IF outcome = "zero" THEN Some(0)
    ELSE IF outcome = "nonzero" THEN Some(1)
    ELSE None

\* stdout followed by stderr of a command, and the text of the io::Error of
\* one that did not start.
OutputOf(stage, k) == [kind |-> "output", stage |-> stage, command |-> k]
ErrorTextOf(stage, k) == [kind |-> "error", stage |-> stage, command |-> k]
EmptyOutput == [kind |-> "empty"]

\* Variant of RunStageFrom that goes on after a command that did not start.
RECURSIVE RunStageFromIgnoringLaunch(_, _, _, _)
RunStageFromIgnoringLaunch(stage, commands, k, ran) ==
    IF k > Len(commands)
    THEN [result |-> [stage |-> stage, success |-> TRUE,
                      output |-> EmptyOutput, exit_code |-> Some(0)],
          ran |-> ran]
    ELSE LET executed == Append(ran, [stage |-> stage, command |-> k])
         IN  IF commands[k] = "unlaunchable" \/ StatusSuccess(commands[k])
             THEN RunStageFromIgnoringLaunch(stage, commands, k + 1, executed)
             ELSE [result |-> [stage |-> stage, success |-> FALSE,
                               output |-> OutputOf(stage, k),
                               exit_code |-> StatusCode(commands[k])],
                   ran |-> executed]

\* The loop of run_stage from the k-th command on; ran lists the commands
\* handed to run_shell_command so far.
RECURSIVE RunStageFrom(_, _, _, _)
RunStageFrom(stage, commands, k, ran) ==
    IF k > Len(commands)
    THEN [result |-> [stage |-> stage, success |-> TRUE,
                      output |-> EmptyOutput, exit_code |-> Some(0)],
          ran |-> ran]
    ELSE LET executed == Append(ran, [stage |-> stage, command |-> k])
         IN  IF commands[k] = "unlaunchable"
             THEN [result |-> [stage |-> stage, success |-> FALSE,
                               output |-> ErrorTextOf(stage, k),
                               exit_code |-> None],
                   ran |-> executed]
             ELSE IF ~StatusSuccess(commands[k])
             THEN [result |-> [stage |-> stage, success |-> FALSE,
                               output |-> OutputOf(stage, k),
                               exit_code |-> StatusCode(commands[k])],
                   ran |-> executed]
             ELSE RunStageFrom(stage, commands, k + 1, executed)

\* ValidationProfile::run_stage on commands_for_stage(stage).
RunStage(commands, stage, ran) == RunStageFrom(stage, commands[stage], 1, ran)

\* Variant of RunStagesOf that goes on to the next stage after a failure.
RECURSIVE RunStagesOfWithoutBreak(_, _, _, _)
RunStagesOfWithoutBreak(commands, stages, results, ran) ==
    IF stages = <<>> THEN [results |-> results, ran |-> ran]
    ELSE LET run == RunStage(commands, Head(stages), ran)
         IN  RunStagesOfWithoutBreak(commands, Tail(stages),
                                     Append(results, run.result), run.ran)

\* The loop of run_all with the commands of the profile carried out.
RECURSIVE RunStagesOf(_, _, _, _)
RunStagesOf(commands, stages, results, ran) ==
    IF stages = <<>> THEN [results |-> results, ran |-> ran]
    ELSE LET run == RunStage(commands, Head(stages), ran)
         IN  IF run.result.success
             THEN RunStagesOf(commands, Tail(stages),
                              Append(results, run.result), run.ran)
             ELSE [results |-> Append(results, run.result), ran |-> run.ran]

\* ValidationStage::all() or ValidationStage::short_circuit()
StagesFor(include_tests) ==
    IF include_tests THEN AllStages ELSE ShortCircuitStages

\* How many commands each stage of a profile holds: up to MaxCommands over
\* the four stages.
CommandCounts ==
    {count \in [StageNames -> 0..MaxCommands] :
        count["Fmt"] + count["Lint"] + count["Typecheck"] + count["Test"]
          <= MaxCommands}

\* The profiles exercised: for each stage a list of what its commands do.
LibProfiles ==
    UNION {[Fmt : [1..count["Fmt"] -> CommandOutcomes],
            Lint : [1..count["Lint"] -> CommandOutcomes],
            Typecheck : [1..count["Typecheck"] -> CommandOutcomes],
            Test : [1..count["Test"] -> CommandOutcomes]] :
              count \in CommandCounts}

InitValidation ==
    /\ NoRun
    /\ file = None
    /\ lib = NoLib
    /\ call = NoCall
    /\ profile \in {[NoProfile EXCEPT !.commands = commands] :
                       commands \in LibProfiles}

\* profile.run_stage(stage, cwd)
ValidationRunStage ==
    \E stage \in StageNames :
        LET run == RunStage(profile.commands, stage, <<>>)
        IN  /\ profile' = [profile EXCEPT !.op = "run_stage",
                                          !.include_tests = FALSE,
                                          !.results = <<run.result>>,
                                          !.ran = run.ran]
            /\ UNCHANGED <<runVars, call, file, lib>>

\* profile.run_all(cwd, include_tests)
ValidationRunAll ==
    \E include_tests \in BOOLEAN :
        LET run == RunStagesOf(profile.commands, StagesFor(include_tests),
                               <<>>, <<>>)
        IN  /\ profile' = [profile EXCEPT !.op = "run_all",
                                          !.include_tests = include_tests,
                                          !.results = run.results,
                                          !.ran = run.ran]
            /\ UNCHANGED <<runVars, call, file, lib>>

NextValidation ==
    \/ ValidationRunStage
    \/ ValidationRunAll

SpecValidation == InitValidation /\ [][NextValidation]_vars

---------------------------------------------------------------------------
(* C29 *)

\* Every command of the stage starts and exits with 0.
AllCommandsPass(stage) ==
    \A k \in 1..Len(profile.commands[stage]) :
        profile.commands[stage][k] = "zero"

\* C29: the results of run_all are for the first stages of fmt, lint,
\* typecheck and, only with include_tests, test, one each and in that
\* order; every result but the last is a success; the list ends at the
\* first stage that fails, no command of a later stage is run; without
\* include_tests there is no result for test and no test command is run.
C29_RunAllStopsAtFirstFailure ==
    profile.op = "run_all"
    => LET stages == StagesFor(profile.include_tests)
           results == profile.results
           n == Len(results)
       IN  /\ n >= 1 /\ n <= Len(stages)
           /\ \A k \in 1..n : results[k].stage = stages[k]
           /\ \A k \in 1..(n - 1) : results[k].success
           /\ \A k \in 1..n : results[k].success <=> AllCommandsPass(stages[k])
           /\ n < Len(stages) => ~results[n].success
           /\ \A j \in 1..Len(profile.ran) :
                  \E k \in 1..n : profile.ran[j].stage = stages[k]
           /\ ~profile.include_tests
              => /\ \A k \in 1..n : results[k].stage /= "Test"
                 /\ \A j \in 1..Len(profile.ran) : profile.ran[j].stage /= "Test"

\* Lint fails with commands left for typecheck and test: two results, and
\* no command of the later stages is run.
C29_Witness ==
    /\ profile.op = "run_all"
    /\ profile.include_tests
    /\ Len(profile.results) = 2
    /\ profile.results[1].success
    /\ ~profile.results[2].success
    /\ profile.results[2].stage = "Lint"
    /\ profile.commands["Test"] /= <<>>
    /\ profile.ran = <<[stage |-> "Lint", command |-> 1]>>

---------------------------------------------------------------------------
(* C30 *)

\* The first command of the list that does not exit with 0, 0 for none.
FirstNotPassing(commands) ==
    FirstIndex({k \in 1..Len(commands) : commands[k] /= "zero"})

\* C30: the result of run_stage is a success iff every command of the
\* stage starts and exits with 0, and then has exit code 0 and no output;
\* the commands are run in the order of the list up to the first that
\* fails or does not start; a command that does not start gives a failed
\* result without exit code.
C30_RunStageStopsAtFirstFailure ==
    profile.op = "run_stage"
    => LET result == profile.results[1]
           commands == profile.commands[result.stage]
           first == FirstNotPassing(commands)
           last == IF first = 0 THEN Len(commands) ELSE first
       IN  /\ Len(profile.results) = 1
           /\ result.success <=> AllCommandsPass(result.stage)
           /\ result.success
              => result.exit_code = Some(0) /\ result.output = EmptyOutput
           /\ profile.ran
                = [k \in 1..last |-> [stage |-> result.stage, command |-> k]]
           /\ (first /= 0 /\ commands[first] = "unlaunchable")
              => /\ ~result.success
                 /\ result.exit_code = None
                 /\ result.output = ErrorTextOf(result.stage, first)
           /\ (first /= 0 /\ commands[first] /= "unlaunchable")
              => /\ ~result.success
                 /\ result.output = OutputOf(result.stage, first)
                 /\ result.exit_code /= Some(0)

\* A stage of three commands whose second does not start: the third is not
\* run and the result is a failure without exit code.
C30_Witness ==
    /\ profile.op = "run_stage"
    /\ Len(profile.commands["Lint"]) = 3
    /\ profile.commands["Lint"][1] = "zero"
    /\ profile.commands["Lint"][2] = "unlaunchable"
    /\ profile.results[1].stage = "Lint"
    /\ ~profile.results[1].success
    /\ profile.results[1].exit_code = None
    /\ Len(profile.ran) = 2

---------------------------------------------------------------------------
(* prd.rs on its own *)

\* The titles requirements are given, to tell two of the same id apart.
LibTitles == {"first", "second"}

\* The ids asked for: those of the documents and one that no document has.
LibReqIds == {ReqId(i) : i \in 1..(MaxReqs + 1)}

\* Requirements as serde reads them: nothing keeps two from having the
\* same id.
LibRequirements ==
    [id : {ReqId(i) : i \in 1..MaxReqs}, title : LibTitles,
     status : RequirementStatus]

LibDocuments ==
    {[validation_profiles |-> <<"rust-cargo">>, requirements |-> requirements] :
        requirements \in UNION {[1..n -> LibRequirements] : n \in 0..MaxReqs}}

InitPrd ==
    /\ NoRun
    /\ file = None
    /\ lib = NoLib
    /\ profile = NoProfile
    /\ call \in {[fn |-> "from_json", input |-> None,
                  output |-> Some([prd |-> document, returned |-> TRUE])] :
                    document \in LibDocuments}

\* prd.update_requirement_status(req_id, status) on the document at hand.
PrdUpdateRequirementStatus ==
    \E req_id \in LibReqIds, status \in RequirementStatus :
        LET document == Unwrap(call.output).prd
        IN  /\ call' =
                 [fn |-> "update_requirement_status",
                  input |-> Some([prd |-> document, req_id |-> req_id,
                                  status |-> status]),
                  output |-> Some(
                      [prd |-> [document EXCEPT !.requirements =
                                   UpdateRequirementStatus(@, req_id, status)],
                       returned |-> UpdateRequirementStatusReturns(
                                        document.requirements, req_id)])]
            /\ UNCHANGED <<runVars, file, lib, profile>>

NextPrd == PrdUpdateRequirementStatus

SpecPrd == InitPrd /\ [][NextPrd]_vars

---------------------------------------------------------------------------
(* C34 *)

\* C34: update_requirement_status(id, s) returns true iff the document has
\* a requirement with that id; then the first such requirement has status
\* s and is otherwise as before, every other requirement and every other
\* field of the document is as before, in the same order; when it returns
\* false the document is as before.
C34_UpdateChangesFirstMatchOnly ==
    call.fn = "update_requirement_status"
    => LET before == Unwrap(call.input).prd
           req_id == Unwrap(call.input).req_id
           status == Unwrap(call.input).status
           after == Unwrap(call.output).prd
           returned == Unwrap(call.output).returned
           matches == {k \in 1..Len(before.requirements) :
                          before.requirements[k].id = req_id}
       IN  /\ returned <=> matches /= {}
           /\ ~returned => after = before
           /\ after.validation_profiles = before.validation_profiles
           /\ Len(after.requirements) = Len(before.requirements)
           /\ \A k \in 1..Len(before.requirements) :
                 IF k \in matches /\ \A j \in matches : k <= j
                 THEN /\ after.requirements[k].status = status
                      /\ after.requirements[k].id = before.requirements[k].id
                      /\ after.requirements[k].title
                           = before.requirements[k].title
                 ELSE after.requirements[k] = before.requirements[k]

\* Two requirements with the id asked for: the first is written, the second
\* keeps its status.
C34_Witness ==
    /\ call.fn = "update_requirement_status"
    /\ Unwrap(call.output).returned
    /\ Unwrap(call.input).status = "Done"
    /\ Len(Unwrap(call.input).prd.requirements) = 2
    /\ Unwrap(call.input).prd.requirements[1].id = Unwrap(call.input).req_id
    /\ Unwrap(call.input).prd.requirements[2].id = Unwrap(call.input).req_id
    /\ Unwrap(call.input).prd.requirements[1].status = "Todo"
    /\ Unwrap(call.input).prd.requirements[2].status = "Todo"
    /\ Unwrap(call.output).prd.requirements[1].status = "Done"
    /\ Unwrap(call.output).prd.requirements[2].status = "Todo"

---------------------------------------------------------------------------
(* C35 *)

\* The files of a first run on a feature nothing was done for yet: no
\* ledger or an empty one, and no requirement Done.
InitFresh ==
    /\ InitRuns
    /\ \A k \in 1..Len(disk.prd.requirements) :
           disk.prd.requirements[k].status /= "Done"

SpecFresh == InitFresh /\ [][NextRuns]_vars

\* The ledger file holds a Done event for the requirement.
HasDoneEvent(id) ==
    \E k \in 1..Len(DiskEvents) :
        DiskEvents[k].requirement = id /\ DiskEvents[k].status = "Done"

\* C35: from an empty ledger and a document without Done requirement, in
\* every state of the files, between two steps of an attempt, after a crash
\* and after a fatal error included, a requirement that is Done in the
\* document on disk has a Done event in the ledger file.
C35_PersistedDoneHasDoneEvent ==
    \A k \in 1..Len(disk.prd.requirements) :
        disk.prd.requirements[k].status = "Done"
        => HasDoneEvent(disk.prd.requirements[k].id)

---------------------------------------------------------------------------
(* C36 *)

\* A step of a run in which no save and no append fails.
CleanStep == Next /\ pc' /= "aborted"

\* The command is run again, not as a dry run, after a run that ended.
CleanRestart == Restart /\ ~config'.dry_run

NextClean ==
    \/ CleanStep
    \/ CleanRestart

\* Runs that are not dry runs, on files whose ledger starts empty, without
\* I/O errors and without interruptions.
InitClean == InitRuns /\ ~config.dry_run

SpecClean == InitClean /\ [][NextClean]_vars

\* The steps of an attempt after its Started event and before its outcome
\* event.
AttemptOpenSteps == {"copilot", "validate", "save_outcome", "append_outcome"}

\* C36: over runs that are not dry runs, without I/O errors or crashes,
\* from an empty ledger: the ledger is a sequence of pairs, a Started event
\* and right after it one Done or Failed event with the same iteration and
\* the same requirement; the k-th pair has iteration k, across runs; a
\* Started event is last only while its attempt is under way.
C36_StartedOutcomePairsConsecutive ==
    /\ \A j \in 1..Len(DiskEvents) :
          /\ DiskEvents[j].iteration = (j + 1) \div 2
          /\ j % 2 = 1 => DiskEvents[j].status = "Started"
          /\ j % 2 = 0
             => /\ DiskEvents[j].status \in {"Done", "Failed"}
                /\ DiskEvents[j].requirement = DiskEvents[j - 1].requirement
    /\ Len(DiskEvents) % 2 = 1 => pc \in AttemptOpenSteps

\* The second run on the files has made its second attempt: three pairs.
C36_Witness ==
    /\ Len(start.events) = 2
    /\ Len(DiskEvents) = 6
    /\ DiskEvents[5] = NewEvent(3, DiskEvents[6].requirement, "Started")
    /\ DiskEvents[6].status = "Failed"
    /\ DiskEvents[6].iteration = 3

---------------------------------------------------------------------------
(* C37 *)

\* C37: after constructors and successful appends on a path, the events the
\* Ledger value holds are the events stored in the file, also when
\* Ledger::create was given a path whose file already holds events.
C37_MemoryEqualsStoredEvents ==
    (/\ IsSome(lib.obj)
     /\ Unwrap(lib.obj).backed
     /\ ~lib.failed
     /\ FromFile(file).ok)
    => LibEventsHeld = FromFile(file).events

---------------------------------------------------------------------------
(* C38 *)

\* The steps of an attempt, from the selection of its requirement on.
AttemptSteps ==
    {"mark", "log_start", "copilot", "validate", "save_outcome",
     "append_outcome"}

\* Position in the document of the requirement with that id.
PositionOf(requirements, id) ==
    CHOOSE k \in 1..Len(requirements) : requirements[k].id = id

Settled(r) == r.status = "Done" \/ r.status = "Blocked"

\* C38: during every attempt the requirements that come before the
\* attempted one in the document are all Done or Blocked, in memory and on
\* disk: a requirement is attempted, and so becomes Done, only once those
\* before it are settled, and none after a requirement that keeps failing.
C38_EarlierRequirementsSettled ==
    pc \in AttemptSteps
    => LET at == PositionOf(prd.requirements, Unwrap(local.req).id)
       IN  \A k \in 1..(at - 1) :
              /\ Settled(prd.requirements[k])
              /\ Settled(disk.prd.requirements[k])

\* The second requirement is attempted after the first became Done in this
\* run.
C38_Witness ==
    /\ pc = "copilot"
    /\ Len(prd.requirements) = 2
    /\ Unwrap(local.req).id = ReqId(2)
    /\ start.requirements[1].status = "Todo"
    /\ prd.requirements[1].status = "Done"

---------------------------------------------------------------------------
(* C39 *)

\* A dry run in loop mode that found a requirement to work on when it
\* loaded the document.
DryLoopWithWork ==
    /\ config.dry_run
    /\ config.loop_enabled
    /\ pc /= "load"
    /\ NextReq(start.requirements) /= 0

\* C39: in a dry run in loop mode with an eligible requirement, the
\* document and the ledger stay as loaded, so every pass finds the same
\* requirement and the same iteration number; the run does not end before
\* the pass counter exceeds max_iterations, that is after max_iterations
\* passes, and it ends with the cap reached, never with all complete nor
\* with an error.
C39_DryRunLoopRunsToTheCap ==
    DryLoopWithWork
    => /\ prd.requirements = start.requirements
       /\ ledger = start.events
       /\ NextReq(prd.requirements) = NextReq(start.requirements)
       /\ LatestIteration(ledger) = LatestIteration(start.events)
       /\ pc \in {"loop", "select", "terminated"}
       /\ pc = "select" => iteration_count \in 1..config.max_iterations
       /\ pc = "loop" => iteration_count \in 0..config.max_iterations
       /\ pc = "terminated"
          => /\ reason = "MaxIterationsReached"
             /\ iteration_count = config.max_iterations + 1

\* A dry run with the default cap has ended: ten passes were made.
C39_Witness ==
    /\ DryLoopWithWork
    /\ config.max_iterations = DefaultMaxIterations
    /\ pc = "terminated"
    /\ reason = "MaxIterationsReached"
    /\ iteration_count = DefaultMaxIterations + 1

---------------------------------------------------------------------------
(* C40 *)

\* C40: in every attempt the validation block is reached after the
\* assistant whatever the assistant returned, and run_all is executed when
\* a profile resolves; the outcome event records in validation_passed the
\* result of validation alone: a Done event has validation_passed true, a
\* Failed event has it true exactly when the assistant failed and
\* validation passed.
C40_ValidationIndependentOfAssistant ==
    /\ [](pc \in {"save_outcome", "append_outcome"}
          => /\ env.validations = env.attempts
             /\ IsSome(ResolvedProfile(validation_config,
                                       prd.validation_profiles))
                => local.results /= <<>>)
    /\ [][(pc = "append_outcome" /\ pc' /= "aborted")
          => LET event == LastEvent(ledger')
             IN  /\ Len(ledger') = Len(ledger) + 1
                 /\ event.validation_passed = Some(local.validation_passed)
                 /\ event.status = "Done"
                    => event.validation_passed = Some(TRUE)
                 /\ event.status = "Failed"
                    => (event.validation_passed = Some(TRUE)
                          <=> (~local.copilot_success
                               /\ local.validation_passed))]_vars
    /\ [](\A k \in 1..Len(Appended) :
             Appended[k].status = "Done"
             => Appended[k].validation_passed = Some(TRUE))

\* The assistant failed, the stages of the profile were run and passed, and
\* the Failed event of the attempt says that validation passed.
C40_Witness ==
    /\ Len(Appended) >= 2
    /\ LastEvent(ledger).status = "Failed"
    /\ LastEvent(ledger).validation_passed = Some(TRUE)
    /\ env.assistant = "Failed"
    /\ env.validation = "Passed"
    /\ env.validations = 1

---------------------------------------------------------------------------
(* C32 *)

\* The steps of an attempt after its prompt was built.
AfterPromptSteps == {"validate", "save_outcome", "append_outcome"}

\* The ledger as the attempt under way found it, before its Started event.
LedgerBeforeAttempt == SubSeq(ledger, 1, Len(ledger) - 1)

\* C32: the prompt of an attempt with iteration > 1 holds the stored
\* failure message iff the last event of the requirement, before the
\* attempt, is Failed: a retry after a failed attempt is given the message
\* of that attempt, an attempt without failed predecessor is given none.
C32_RetryGetsFailureMessage ==
    pc \in AfterPromptSteps
    => LET req_id == Unwrap(local.req).id
           failed == /\ local.iteration > 1
                     /\ IsRequirementFailed(LedgerBeforeAttempt, req_id)
       IN  /\ failed
              => /\ IsSome(local.feedback)
                 /\ local.feedback
                      = GetLastValidationFailure(LedgerBeforeAttempt, req_id)
           /\ ~failed => local.feedback = None

---------------------------------------------------------------------------
(* implement.rs: the failure output on its way into the prompt, on its own *)

\* const MAX_VALIDATION_OUTPUT of generate_prompt, and the max_chars
\* summarize_validation_output hands to smart_truncate_validation_output.
MaxValidationOutput == 2000

\* The lines smart_truncate_validation_output keeps at the start and at the
\* end.
FirstLines == 15
LastLines == 10

\* Most lines in the output of a failed stage.
MaxLines == 31

\* A text is a sequence of pieces: lines of the validation output (with
\* their number and their length in bytes, `whole` unless cut), newlines,
\* and the markers and summaries the program writes. Texts are ASCII here,
\* so that a cut at a byte index never falls inside a character.
Piece(kind, no, len) == [kind |-> kind, no |-> no, len |-> len, whole |-> TRUE]
LinePiece(no, len) == Piece("line", no, len)
NewlinePiece == Piece("newline", 0, 1)

RECURSIVE TextLen(_)
TextLen(text) ==
    IF text = <<>> THEN 0 ELSE Head(text).len + TextLen(Tail(text))

\* &text[..k] and String::truncate(k): the first k bytes.
RECURSIVE Take(_, _)
Take(text, k) ==
    IF text = <<>> \/ k = 0 THEN <<>>
    ELSE IF Head(text).len <= k
    THEN <<Head(text)>> \o Take(Tail(text), k - Head(text).len)
    ELSE <<[Head(text) EXCEPT !.len = k, !.whole = FALSE]>>

\* The decimal digits format! writes for a count.
RECURSIVE Digits(_)
Digits(k) == IF k < 10 THEN 1 ELSE 1 + Digits(k \div 10)

\* str::lines
LinesOf(text) == SelectSeq(text, LAMBDA piece : piece.kind = "line")

\* Each line followed by '\n'.
RECURSIVE PushLines(_)
PushLines(lines) ==
    IF lines = <<>> THEN <<>>
    ELSE <<Head(lines), NewlinePiece>> \o PushLines(Tail(lines))

Min(a, b) == IF a <= b THEN a ELSE b

\* Variant of LineWindow that takes its two windows without looking at the
\* number of lines.
LineWindowFixedCounts(lines) ==
    LET total_lines == Len(lines)
        first_n == Min(FirstLines, total_lines)
        last_m == Min(LastLines, total_lines)
        omitted == IF total_lines > first_n + last_m
                   THEN total_lines - (first_n + last_m) ELSE 0
    IN  [first_n |-> first_n, last_m |-> last_m, omitted |-> omitted,
         text |-> PushLines(SubSeq(lines, 1, first_n))
                  \o (IF omitted > 0
                      THEN <<Piece("omitted", omitted, 27 + Digits(omitted))>>
                      ELSE <<>>)
                  \o PushLines(SubSeq(lines, total_lines - last_m + 1,
                                      total_lines))]

\* smart_truncate_validation_output, the window of lines: the first lines,
\* the marker "\n... (N lines omitted) ...\n\n", the last lines.
LineWindow(lines) ==
    LET total_lines == Len(lines)
        first_n == Min(FirstLines, total_lines \div 2)
        last_m == Min(LastLines, total_lines \div 2)
        omitted == IF total_lines > first_n + last_m
                   THEN total_lines - (first_n + last_m) ELSE 0
    IN  [first_n |-> first_n, last_m |-> last_m, omitted |-> omitted,
         text |-> PushLines(SubSeq(lines, 1, first_n))
                  \o (IF omitted > 0
                      THEN <<Piece("omitted", omitted, 27 + Digits(omitted))>>
                      ELSE <<>>)
                  \o PushLines(SubSeq(lines, total_lines - last_m + 1,
                                      total_lines))]

\* smart_truncate_validation_output, the end: "If still too long, hard
\* truncate", with the marker "...\n(truncated to fit size limit)".
HardTruncate(text, max_chars) ==
    IF TextLen(text) > max_chars
    THEN Take(text, max_chars) \o <<Piece("hard", 0, 33)>>
    ELSE text

\* smart_truncate_validation_output
SmartTruncate(output, max_chars) ==
    IF TextLen(output) <= max_chars THEN output
    ELSE HardTruncate(LineWindow(LinesOf(output)).text, max_chars)

\* The lengths of the assistant's answers that are tried (0 after trim()
\* for an answer of blanks).
SummaryLengths == {0, 500, 2500}

\* What the assistant asked for a summary can come to: None when it is not
\* there or fails, else the length of its answer.
SummaryAnswers == {None} \cup {Some(n) : n \in SummaryLengths}

\* summarize_validation_output
Summarize(validation_output, answer) ==
    IF validation_output = <<>> THEN <<>>
    ELSE IF answer = None
    THEN SmartTruncate(validation_output, MaxValidationOutput)
    ELSE IF Unwrap(answer) = 0 THEN <<>>
    ELSE <<Piece("summary", 0, Unwrap(answer))>>

\* generate_prompt: what is pushed between the heading of the failure
\* section and its closing lines, the stored message or its first
\* MAX_VALIDATION_OUTPUT bytes and "\n\n... (truncated N chars) ...\n".
FailureSection(validation_output) ==
    IF TextLen(validation_output) > MaxValidationOutput
    THEN Take(validation_output, MaxValidationOutput)
         \o <<Piece("truncated", TextLen(validation_output) - MaxValidationOutput,
                    29 + Digits(TextLen(validation_output) - MaxValidationOutput))>>
    ELSE validation_output

\* The lengths of lines that are tried.
LineLengths == {0, 80, 1000, 2500}

\* format!("Stage: {:?}\n\n{}", r.stage, r.output): the line of the stage,
\* an empty line, and the m lines of the stage's output, the first of
\* length a, the last of length c and the others of length b; `closed`
\* when the output ends with a newline.
FailedOutputText(stage, m, a, b, c, closed) ==
    LET lines == <<LinePiece(1, 7 + Len(stage)), LinePiece(2, 0)>>
                 \o [i \in 1..m |->
                       LinePiece(i + 2, IF i = 1 THEN a
                                        ELSE IF i = m THEN c ELSE b)]
        text == PushLines(lines)
    IN  IF m = 0 \/ closed THEN text ELSE SubSeq(text, 1, Len(text) - 1)

StageTitles == {"Fmt", "Lint", "Typecheck", "Test"}

FailedOutputTexts ==
    {FailedOutputText(stage, m, a, b, c, closed) :
        stage \in StageTitles, m \in 0..MaxLines,
        a \in LineLengths, b \in LineLengths, c \in LineLengths,
        closed \in BOOLEAN}

InitFeedback ==
    /\ NoRun
    /\ file = None
    /\ lib = NoLib
    /\ profile = NoProfile
    /\ call \in {[NoCall EXCEPT !.input = Some(text)] :
                    text \in FailedOutputTexts}

\* smart_truncate_validation_output(validation_output, 2000)
FeedbackSmartTruncate ==
    /\ call' = [call EXCEPT
                   !.fn = "smart_truncate",
                   !.output = Some(
                       [window |-> LineWindow(LinesOf(Unwrap(call.input))),
                        result |-> SmartTruncate(Unwrap(call.input),
                                                 MaxValidationOutput)])]
    /\ UNCHANGED <<runVars, file, lib, profile>>

\* The failed output is summarized, the summary is stored as the message of
\* the Failed event, and the prompt of the next attempt is built with
\* Some(message) as the last validation failure.
FeedbackGeneratePrompt ==
    \E answer \in SummaryAnswers :
        LET message == Summarize(Unwrap(call.input), answer)
        IN  /\ call' = [call EXCEPT
                           !.fn = "generate_prompt",
                           !.output = Some([message |-> message,
                                            section |-> FailureSection(message)])]
            /\ UNCHANGED <<runVars, file, lib, profile>>

NextFeedback ==
    \/ FeedbackSmartTruncate
    \/ FeedbackGeneratePrompt

SpecFeedback == InitFeedback /\ [][NextFeedback]_vars

---------------------------------------------------------------------------
(* C33 *)

\* The numbers of the lines a text holds whole, in the order of the text.
LineNumbers(text) ==
    LET kept == SelectSeq(text, LAMBDA piece : piece.kind = "line" /\ piece.whole)
    IN  [k \in 1..Len(kept) |-> kept[k].no]

\* The counts the text reports as omitted, one for each marker.
OmittedCounts(text) ==
    LET markers == SelectSeq(text, LAMBDA piece : piece.kind = "omitted")
    IN  [k \in 1..Len(markers) |-> markers[k].no]

\* C33: for an output of n lines longer than the bound, the window of
\* lines holds lines 1 to min(15, n div 2) and then the last
\* min(10, n div 2) lines, as they are in the output and none twice; the
\* marker gives n minus the number of lines kept and is there iff that
\* number is positive.
C33_LineWindowCounts ==
    (call.fn = "smart_truncate"
     /\ TextLen(Unwrap(call.input)) > MaxValidationOutput)
    => LET lines == LinesOf(Unwrap(call.input))
           n == Len(lines)
           first == IF n \div 2 < 15 THEN n \div 2 ELSE 15
           last == IF n \div 2 < 10 THEN n \div 2 ELSE 10
           window == Unwrap(call.output).window.text
           numbers == LineNumbers(window)
       IN  /\ Len(numbers) = first + last
           /\ \A k \in 1..first : numbers[k] = k
           /\ \A k \in 1..last : numbers[first + k] = n - last + k
           /\ \A j, k \in 1..Len(numbers) : j < k => numbers[j] < numbers[k]
           /\ \A k \in 1..Len(window) :
                 window[k].kind = "line" => window[k] = lines[window[k].no]
           /\ OmittedCounts(window)
                = IF n - (first + last) > 0 THEN <<n - (first + last)>>
                  ELSE <<>>

\* An output of 33 lines: 15 and 10 lines are kept and 8 reported omitted.
C33_Witness ==
    /\ call.fn = "smart_truncate"
    /\ TextLen(Unwrap(call.input)) > MaxValidationOutput
    /\ Len(LinesOf(Unwrap(call.input))) = 33
    /\ Len(LineNumbers(Unwrap(call.output).window.text)) = 25
    /\ OmittedCounts(Unwrap(call.output).window.text) = <<8>>

---------------------------------------------------------------------------
(* C31 *)

HasWholeLine(text, no) ==
    \E k \in 1..Len(text) :
        text[k].kind = "line" /\ text[k].no = no /\ text[k].whole

\* C31: when the stored failure message is longer than the bound, what
\* generate_prompt puts into the prompt for it is no longer than the bound
\* and holds the first and the last line of the output of the failed
\* stage.
C31_FailureSectionWithinBound ==
    (call.fn = "generate_prompt"
     /\ TextLen(Unwrap(call.output).message) > MaxValidationOutput)
    => LET section == Unwrap(call.output).section
           lines == LinesOf(Unwrap(call.input))
       IN  /\ TextLen(section) <= MaxValidationOutput
           /\ HasWholeLine(section, 1)
           /\ HasWholeLine(section, Len(lines))

===========================================================================
